---- MODULE Spec2Model ----
(***************************************************************************)
(* Model of the stream distribution and motion-triggered recording engine  *)
(* of app_both.py: StreamClient, MotionAnalyzer, StreamManager and the     *)
(* consumer generators that drain one StreamClient each.                   *)
(*                                                                         *)
(* Threads: the stream worker (_stream_worker), the operator calling       *)
(* stop(), and one consumer per StreamClient.  Each action is one atomic   *)
(* step of one thread; a step never spans a point where another thread can *)
(* change what the step reads.                                             *)
(*                                                                         *)
(* Timestamps (time.time()) are held in ticks of 0.1 s.  The reconnect     *)
(* delay is held in units of 1/64 s: every value 2 * 1.5^k below the cap   *)
(* is a multiple of 1/64, so the float computation is represented exactly. *)
(* A frame is its number (the order in which the camera delivered it); a   *)
(* buffered frame_data is the record [id, ts].  None is -1 for a time and  *)
(* 0 for a frame.                                                          *)
(***************************************************************************)
EXTENDS Integers, Sequences, FiniteSets, TLC

\* ----------------------------------------------------- program constants
\* StreamClient.buffer = deque(maxlen=100)
BufferMaxLen == 100
\* reconnect_delay = 2                       (2 s, in 1/64 s)
InitialDelay == 128
\* min(reconnect_delay * 1.5, 30)            (30 s, in 1/64 s)
MaxDelay == 1920
\* self.clip_before = 1.0                    (in ticks of 0.1 s)
clip_before == 10
\* self.clip_after = 2.0
clip_after == 20
\* self.min_clip_length = 2.0
min_clip_length == 20
\* if current_time - self.last_motion_update > 2.0
motion_status_grace == 20
\* self.motion_buffer = deque(maxlen=5)
MotionBufferMaxLen == 5
\* self.required_consecutive = 3
required_consecutive == 3
\* self.frame_buffer = deque(maxlen=int(fps * 3)), fps = 30
FrameBufferMaxLen == 90
\* the seconds of frames that capacity stands for, in ticks: int(fps * 3)
RetentionWindow == 30
\* AUTH_CONFIG['enabled'] and AUTH_CONFIG['session_timeout'], in seconds
auth_enabled == TRUE
session_timeout == 3600
\* def __init__(self, output_directory="motion_clips", fps=30)
NominalFps == 30
\* actual_fps = max(5.0, min(30.0, actual_fps))
MinFps == 5
MaxFps == 30

\* ---------------------------------------------------------------- bounds
\* subscriber handles that exist in the model
NClients == 2
\* consumers that attach in the lifecycle specification
NClientsLife == 1
\* stop() calls the operator may make in the lifecycle specification
MaxStops == 2
\* frames the camera delivers in the lifecycle specification
MaxFramesLife == 1
\* failed connects in a row in the lifecycle specification
MaxFailsLife == 1
\* failed connects in a row in the backoff specification
MaxFailsBackoff == 9
\* frames the camera delivers in the backoff specification
MaxFramesBackoff == 1
\* stop() calls in the backoff specification
MaxStopsBackoff == 1
\* frames already published, undrained, when the FIFO specification starts
WarmFrames == 98
\* frames the camera delivers after the warm start in the FIFO specification
MaxFramesFifo == 3
\* consumers, frames and stop() calls in the cancellation specification
NClientsCancel == 1
MaxFramesCancel == 1
MaxStopsCancel == 1
\* frames and stop() calls in the recording specification
MaxFramesMotion == 4
MaxStopsMotion == 1
\* the scripted motion episode: its length (2.2 s), the frames delivered, the
\* largest frame interval and the latest tick at which motion starts
EpisodeLength == 22
MaxFramesEpisode == 70
MaxGapEpisode == 3
MinEpisodeStart == 12
MaxEpisodeStart == 14
\* the short motion episode: its length (0.3 s)
ShortEpisodeLength == 3
\* frames of the camera that plays a script of raw decisions
MaxFramesScript == 9
\* frames in the live-recording specification
MaxFramesRecord == 11
\* clips given to _save_video_clip alone: their frames and their span in ticks
MaxClipFrames == 61
MaxClipSpan == 30
\* the local-time specification: frames read, the tick at which the local
\* clock is set back by one hour (the end of daylight saving time), and the
\* tick of the last frame
MaxFramesLocalTime == 14
FallBackAt == 18000
MaxTimeLocalTime == 40000
\* the web specifications: request threads, session ids create_session can
\* make, and the last reading of the clock
NRequests == 2
NSessionIds == 2
MaxWebTime == 3600
\* the pre-roll specification: frames processed before it starts, all
\* without motion, and frames read in it
WarmPreRoll == 88
MaxFramesPreRoll == 4
\* the halt specification: consumers, frames read, failed connects in a row
\* and calls of stop()
NClientsHalt == 1
MaxFramesHalt == 2
MaxFailsHalt == 2
MaxStopsHalt == 1
\* the registry specification: frames read and calls of stop()
MaxFramesRegistry == 2
MaxStopsRegistry == 1

Clients == 1..NClients
\* time between two frames, in ticks, where the camera's pace is free
Gaps == {1, 11, 21}
\* frame intervals of the camera that plays a script
ScriptGaps == {1, 7}
\* frame intervals of a camera that may stay silent for close to an hour
OutageGaps == {7, 35951}

VARIABLES
    \* StreamManager
    running,            \* self.running
    cap,                \* self.cap: "none" | "open" | "released"
    clients,            \* self.clients (the registry)
    lock,               \* holder of self.clients_lock: "none" | "worker" | "stop"
    last_frame,         \* self.last_frame
    published,          \* the frames handed to _distribute_frame, in order
    motion_detection,   \* self.motion_detection
    \* StreamClient, one per handle
    connected,          \* client.connected
    buffer,             \* client.buffer
    \* _stream_worker
    wpc,                \* the worker's position
    reconnect_delay,    \* local reconnect_delay
    cur,                \* frame_bytes of the iteration
    iter,               \* clients the publish pass has still to visit
    to_remove,          \* clients_to_remove of the publish pass
    \* stop()
    spc,                \* the operator's position inside stop()
    \* consumers
    cpc,                \* each consumer's position
    \* MotionAnalyzer
    now,                \* time.time() at the latest process_frame
    is_recording,
    clip_frames,
    clip_start_time,
    last_motion_time,
    frame_buffer,
    motion_buffer,
    motion_detected,
    last_motion_update,
    encoded,            \* clips handed to _save_video_clip, in order
    \* the camera's script (0 where the camera is free)
    gap,                \* frame interval of the run
    ep_start,           \* tick at which the motion episode starts
    raw,                \* raw per-frame decisions, by frame number
    detected,           \* what detect_significant_motion returned, in order
    \* history
    frames_read,        \* frames the camera has delivered
    fails,              \* failed connects since the last successful one
    ever_connected,     \* a connect has succeeded
    delay_at_connect,   \* reconnect_delay when the last connect succeeded
    stops,              \* stop() calls that have returned
    since_stop,         \* connects and publishes of the running worker since stop()
    pushed,             \* per handle: frames pushed to it since it attached
    evicted,            \* per handle: entries its full FIFO has discarded
    yielded,            \* per handle: the part its generator is yielding
                        \* (hdr: the frame measured for Content-Length,
                        \* body: the frame sent), 0 for none
    finalized,          \* clips finalized (encoded or discarded)
    first_motion,       \* timestamp of the first frame showing motion
    last_final,         \* at the latest finalization: [motion_end, at]
    \* the web application
    sessions,           \* the session store, by session id
    issued,             \* session ids create_session has made so far
    wclock,             \* time.time() of the web threads, in seconds
    files,              \* names of the entries of the output directory
    rpc,                \* each request thread's position
    rreq,               \* each request: [route, cookie, filename]
    ruser,              \* each request's local session / request.user
    resp,               \* each request's response status, 0 for none yet
    late,               \* per request: it began with its cookie's session
                        \* absent from the store
    ran,                \* per request: the wrapped handler has been entered
    removed             \* os.remove calls made: [name, role]

mgrVars == << running, cap, clients, lock, last_frame, published,
             motion_detection >>
cliVars == << connected, buffer, pushed, evicted, yielded >>
wrkVars == << wpc, reconnect_delay, cur, iter, to_remove, frames_read,
              fails, ever_connected, delay_at_connect >>
stpVars == << spc, stops, since_stop >>
motVars == << now, is_recording, clip_frames, clip_start_time,
              last_motion_time, frame_buffer, motion_buffer, motion_detected,
              last_motion_update, encoded, gap, ep_start, raw, detected,
              finalized, first_motion, last_final >>

webVars == << sessions, issued, wclock, files, rpc, rreq, ruser, resp, late,
             ran, removed >>
engineVars == << mgrVars, cliVars, wrkVars, stpVars, cpc, motVars >>

vars == << mgrVars, cliVars, wrkVars, stpVars, cpc, motVars, webVars >>

Min(a, b) == IF a < b THEN a ELSE b
Last(s) == s[Len(s)]

\* ---------------------------------------------------------- StreamClient
\* a bounded FIFO that refuses the new entry when full
add_frame_drop_newest(buf, f) ==
    IF Len(buf) >= BufferMaxLen THEN buf ELSE Append(buf, f)

\* deque(maxlen=100).append: the oldest entry is discarded when full
add_frame(buf, f) ==
    IF Len(buf) >= BufferMaxLen THEN Append(Tail(buf), f) ELSE Append(buf, f)

\* -------------------------------------------------------- MotionAnalyzer
\* a window that never discards an entry
deque_append_unbounded(d, x, n) == Append(d, x)

\* deque(maxlen=n).append
deque_append(d, x, n) == IF Len(d) >= n THEN Append(Tail(d), x) ELSE Append(d, x)

\* all(self.motion_buffer)
all_true(mb) == \A i \in 1..Len(mb) : mb[i]

\* a detector that looks at the newest required_consecutive entries only
debounced_newest(mb) ==
    /\ Len(mb) >= required_consecutive
    /\ \A i \in (Len(mb) - required_consecutive + 1)..Len(mb) : mb[i]

\* detect_significant_motion, after the append: the value returned
debounced(mb) ==
    IF Len(mb) >= required_consecutive THEN all_true(mb) ELSE FALSE

\* a pre-roll that takes the whole frame_buffer
pre_motion_frames_all(fb, t) == fb

\* [fd for fd in frame_buffer if fd['timestamp'] >= current_time - clip_before]
pre_motion_frames(fb, t) ==
    SelectSeq(fb, LAMBDA fd : fd.ts >= t - clip_before)

\* the lingering test with the clip ended as soon as the post-roll is reached
clip_ended_early(t, lmt) == (t - lmt) >= clip_after - 1

\* if (current_time - self.last_motion_time) > self.clip_after
clip_ended(t, lmt) == (t - lmt) > clip_after

\* if clip_length >= self.min_clip_length, with the clip never long enough
clip_long_enough_never(t, start) == FALSE

\* if clip_length >= self.min_clip_length
clip_long_enough(t, start) == t - start >= min_clip_length

\* What the ffmpeg run of _save_video_clip can come to: an exception anywhere
\* in the try block, or an exit code and an output file.
EncodeOutcomes ==
    {[exc |-> TRUE, returncode |-> 0, output |-> "missing"]} \cup
    [exc : {FALSE}, returncode : {0, 1},
     output : {"missing", "empty", "written"}]

\* needed_frames = int((self.min_clip_length - actual_duration) * self.fps),
\* the frames appended when actual_duration < self.min_clip_length
needed_frames(dur) ==
    IF dur < min_clip_length
      THEN ((min_clip_length - dur) * NominalFps) \div 10
      ELSE 0

\* a save that leaves the duration of a short clip as its timestamps give it
padded_duration_none(dur) == dur

\* actual_duration once the clip is padded
padded_duration(dur) == IF dur < min_clip_length THEN min_clip_length ELSE dur

\* len(frames) / actual_duration, not clamped
actual_fps_unclamped(count, dur) == [num |-> count * 10, den |-> dur]

\* actual_fps = max(5.0, min(30.0, len(frames) / actual_duration)), as the
\* fraction num / den of frames per second (dur is in ticks)
actual_fps(count, dur) ==
    IF count * 10 > MaxFps * dur THEN [num |-> MaxFps, den |-> 1]
    ELSE IF count * 10 < MinFps * dur THEN [num |-> MinFps, den |-> 1]
    ELSE [num |-> count * 10, den |-> dur]

\* an analyzer that keeps the recording open when the encode gave no file
recording_after_save_retry(o) == o.exc \/ o.output # "written"

\* self.is_recording = False, after _save_video_clip has returned
recording_after_save(o) == FALSE

\* the value _save_video_clip returns
save_result(o) ==
    IF o.exc THEN "None"
    ELSE IF o.output = "written" THEN "output_path" ELSE "None"

\* datetime.datetime.fromtimestamp(timestamp): the local time of day, here in
\* whole seconds as strftime('%Y%m%d_%H%M%S') prints it, in a time zone that
\* is one hour ahead until the tick FallBackAt
local_second(ts) == (ts \div 10) + (IF ts < FallBackAt THEN 3600 ELSE 0)

\* filename = f"motion_{...strftime('%Y%m%d_%H%M%S')}.mp4": the name is its
\* second of local time
filename(ts) == local_second(ts)

\* _save_video_clip(frames, timestamp) with the outcome o of its ffmpeg run:
\* what the encoder is given ('-r' before '-i' and '-r' before the output
\* path, the frames written to its stdin) and what comes back
clip_record(frames, timestamp, o) ==
    LET dur == Last(frames).ts - frames[1].ts
        n   == Len(frames) + needed_frames(dur)
        fps == actual_fps(n, padded_duration(dur))
    IN  [start |-> timestamp, first |-> frames[1].ts,
         last |-> Last(frames).ts, count |-> Len(frames), written |-> n,
         duration |-> padded_duration(dur), filename |-> filename(timestamp),
         in_rate |-> fps, out_rate |-> fps,
         exc |-> o.exc, returncode |-> o.returncode, output |-> o.output,
         ret |-> save_result(o)]

\* a status that outlives the recording by the post-roll
status_expired_late(t, lmu) == t - lmu > motion_status_grace + clip_after

\* process_frame: if current_time - self.last_motion_update > 2.0:
status_expired(t, lmu) == t - lmu > motion_status_grace

\* process_frame(frame, frame_bytes) at time t, with the raw decision of
\* detect_significant_motion for this frame
process_frame(significant, t) ==
    LET fd == [id |-> cur, ts |-> t]
        fb == deque_append(frame_buffer, fd, FrameBufferMaxLen)
        mb == deque_append(motion_buffer, significant, MotionBufferMaxLen)
        has_motion == debounced(mb)
        cf == Append(clip_frames, fd)
    IN  /\ now' = t
        /\ frame_buffer' = fb
        /\ motion_buffer' = mb
        /\ first_motion' = IF significant /\ first_motion = -1
                             THEN t ELSE first_motion
        /\ IF has_motion
             THEN /\ is_recording' = TRUE
                  /\ clip_start_time' = IF is_recording THEN clip_start_time ELSE t
                  /\ clip_frames' = IF is_recording
                                      THEN cf
                                      ELSE Append(pre_motion_frames(fb, t), fd)
                  /\ last_motion_time' = t
                  /\ motion_detected' = TRUE
                  /\ last_motion_update' = t
                  /\ UNCHANGED << encoded, finalized, last_final >>
             ELSE /\ IF is_recording /\ clip_ended(t, last_motion_time)
                       THEN /\ IF clip_long_enough(t, clip_start_time)
                                 THEN \E o \in EncodeOutcomes :
                                        /\ encoded' = Append(encoded,
                                             clip_record(cf, clip_start_time, o))
                                        /\ is_recording' =
                                             recording_after_save(o)
                                 ELSE /\ encoded' = encoded
                                      /\ is_recording' = FALSE
                            /\ finalized' = finalized + 1
                            /\ last_final' = [motion_end |-> last_motion_time,
                                              at |-> t]
                            /\ clip_frames' = << >>
                       ELSE /\ clip_frames' = IF is_recording THEN cf
                                                ELSE clip_frames
                            /\ UNCHANGED << encoded, finalized, last_final,
                                            is_recording >>
                  /\ motion_detected' =
                         IF status_expired(t, last_motion_update)
                           THEN FALSE ELSE motion_detected
                  /\ UNCHANGED << clip_start_time, last_motion_time,
                                  last_motion_update >>
        /\ detected' = Append(detected, has_motion)
        /\ UNCHANGED << gap, ep_start, raw >>

\* ------------------------------------------------------------- the worker
\* a backoff that doubles
next_delay_doubling(d) == Min(d * 2, MaxDelay)

\* reconnect_delay = min(reconnect_delay * 1.5, 30)
next_delay(d) == Min((d * 3) \div 2, MaxDelay)

\* a successful connect that keeps the grown delay
delay_after_connect_kept(d) == d

\* reconnect_delay = 2  # Reset reconnect delay on successful connection
delay_after_connect(d) == InitialDelay

\* a loop test that does not look at the flag
loop_continues_always(r) == TRUE

\* while self.running
loop_continues(r) == r

\* while self.running:
WorkerLoopCheck ==
    /\ wpc = "outer"
    /\ wpc' = IF loop_continues(running) THEN "connect" ELSE "exited"
    /\ since_stop' = IF loop_continues(running) THEN since_stop
                               ELSE [connects |-> 0, publishes |-> 0]
    /\ UNCHANGED << webVars, mgrVars, cliVars, spc, stops, cpc, motVars, reconnect_delay,
                    cur, iter, to_remove, frames_read, fails, ever_connected,
                    delay_at_connect >>

\* history: a connect attempt made while self.running is False
connect_counted(r, h) ==
    IF r THEN h ELSE [h EXCEPT !.connects = @ + 1]

\* history: a publish made while self.running is False
publish_counted(r, h) ==
    IF r THEN h ELSE [h EXCEPT !.publishes = @ + 1]

\* self.cap = self._connect_tcp_stream() returns a capture
ConnectOk ==
    /\ wpc = "connect"
    /\ cap' = "open"
    /\ reconnect_delay' = delay_after_connect(reconnect_delay)
    /\ fails' = 0
    /\ ever_connected' = TRUE
    /\ delay_at_connect' = reconnect_delay
    /\ wpc' = "inner"
    /\ since_stop' = connect_counted(running, since_stop)
    /\ UNCHANGED << webVars, running, clients, lock, last_frame, published, motion_detection,
                    cliVars, spc, stops, cpc, motVars, cur, iter, to_remove,
                    frames_read >>

\* self.cap = self._connect_tcp_stream() returns None (not opened, or raised)
ConnectFail(maxFails) ==
    /\ wpc = "connect"
    /\ fails < maxFails
    /\ cap' = "none"
    /\ fails' = fails + 1
    /\ wpc' = "backoff"
    /\ since_stop' = connect_counted(running, since_stop)
    /\ UNCHANGED << webVars, running, clients, lock, last_frame, published, motion_detection,
                    cliVars, spc, stops, cpc, motVars, reconnect_delay, cur, iter,
                    to_remove, frames_read, ever_connected, delay_at_connect >>

\* time.sleep(reconnect_delay); reconnect_delay = min(...); continue
BackoffSleep ==
    /\ wpc = "backoff"
    /\ reconnect_delay' = next_delay(reconnect_delay)
    /\ wpc' = "outer"
    /\ UNCHANGED << webVars, mgrVars, cliVars, stpVars, cpc, motVars, cur, iter,
                    to_remove, frames_read, fails, ever_connected,
                    delay_at_connect >>

\* while self.running and ...: the read of self.running
InnerCheckRunning ==
    /\ wpc = "inner"
    /\ wpc' = IF loop_continues(running) THEN "inner_cap" ELSE "cleanup"
    /\ UNCHANGED << webVars, mgrVars, cliVars, stpVars, cpc, motVars, reconnect_delay,
                    cur, iter, to_remove, frames_read, fails, ever_connected,
                    delay_at_connect >>

\* ... and self.cap.isOpened(): an AttributeError if self.cap is None
InnerCheckCap ==
    /\ wpc = "inner_cap"
    /\ wpc' = CASE cap = "open"     -> "read"
                [] cap = "released" -> "cleanup"
                [] OTHER            -> "raised_attribute_error"
    /\ UNCHANGED << webVars, mgrVars, cliVars, stpVars, cpc, motVars, reconnect_delay,
                    cur, iter, to_remove, frames_read, fails, ever_connected,
                    delay_at_connect >>

\* if self.motion_detection and self.motion_analyzer:
AfterRead == IF motion_detection THEN "motion" ELSE "dist"

\* _read_frame returns (frame, frame_bytes)
ReadFrameOk(maxFrames) ==
    /\ wpc = "read"
    /\ cap = "open"
    /\ frames_read < maxFrames
    /\ frames_read' = frames_read + 1
    /\ cur' = frames_read + 1
    /\ wpc' = AfterRead
    /\ UNCHANGED << webVars, mgrVars, cliVars, stpVars, cpc, motVars, reconnect_delay,
                    iter, to_remove, fails, ever_connected, delay_at_connect >>

\* _read_frame returns (None, None): the capture is closed, or ret is False
ReadFrameFail ==
    /\ wpc = "read"
    /\ wpc' = "cleanup"
    /\ UNCHANGED << webVars, mgrVars, cliVars, stpVars, cpc, motVars, reconnect_delay,
                    cur, iter, to_remove, frames_read, fails, ever_connected,
                    delay_at_connect >>

\* cv2.imencode raises inside _read_frame: nothing in _stream_worker catches it
ReadFrameEncodeRaises ==
    /\ wpc = "read"
    /\ cap = "open"
    /\ wpc' = "raised_cv2_error"
    /\ UNCHANGED << webVars, mgrVars, cliVars, stpVars, cpc, motVars, reconnect_delay,
                    cur, iter, to_remove, frames_read, fails, ever_connected,
                    delay_at_connect >>

\* self.motion_analyzer.process_frame(frame, frame_bytes), the camera free
MotionProcess ==
    /\ wpc = "motion"
    /\ \E significant \in BOOLEAN, dt \in Gaps :
           process_frame(significant, now + dt)
    /\ wpc' = "dist"
    /\ UNCHANGED << webVars, mgrVars, cliVars, stpVars, cpc, reconnect_delay, cur, iter,
                    to_remove, frames_read, fails, ever_connected,
                    delay_at_connect >>

\* process_frame raises in detect_significant_motion, after the frame went
\* into frame_buffer: except Exception: logger.error(...)
MotionProcessRaises ==
    /\ wpc = "motion"
    /\ \E dt \in Gaps :
        /\ now' = now + dt
        /\ frame_buffer' = deque_append(frame_buffer,
                                        [id |-> cur, ts |-> now + dt],
                                        FrameBufferMaxLen)
    /\ wpc' = "motion_error"
    /\ UNCHANGED << webVars, mgrVars, cliVars, stpVars, cpc, reconnect_delay, cur, iter,
                    to_remove, frames_read, fails, ever_connected,
                    delay_at_connect, is_recording, clip_frames,
                    clip_start_time, last_motion_time, motion_buffer,
                    motion_detected, last_motion_update, encoded, gap,
                    ep_start, raw, detected, finalized, first_motion,
                    last_final >>

\* a worker that gives up the frame whose motion processing raised
MotionErrorSkipsPublish ==
    /\ wpc = "motion_error"
    /\ wpc' = "inner"
    /\ UNCHANGED << webVars, mgrVars, cliVars, stpVars, cpc, motVars, reconnect_delay,
                    cur, iter, to_remove, frames_read, fails, ever_connected,
                    delay_at_connect >>

\* except Exception as e: logger.error(...), and on to _distribute_frame
MotionErrorLogged ==
    /\ wpc = "motion_error"
    /\ wpc' = "dist"
    /\ UNCHANGED << webVars, mgrVars, cliVars, stpVars, cpc, motVars, reconnect_delay,
                    cur, iter, to_remove, frames_read, fails, ever_connected,
                    delay_at_connect >>

\* process_frame on the scripted camera: a frame every gap ticks, showing
\* motion from ep_start for EpisodeLength ticks
MotionProcessEpisode ==
    /\ wpc = "motion"
    /\ process_frame(now + gap \in ep_start..(ep_start + EpisodeLength),
                     now + gap)
    /\ wpc' = "dist"
    /\ UNCHANGED << webVars, mgrVars, cliVars, stpVars, cpc, reconnect_delay, cur, iter,
                    to_remove, frames_read, fails, ever_connected,
                    delay_at_connect >>

\* a publish that does not retain its frame
DistributeSetLastSkipped ==
    /\ wpc = "dist"
    /\ published' = Append(published, cur)
    /\ wpc' = "dist_lock"
    /\ since_stop' = publish_counted(running, since_stop)
    /\ UNCHANGED << webVars, running, cap, clients, lock, last_frame, motion_detection,
                    cliVars, spc, stops, cpc, motVars, reconnect_delay, cur, iter,
                    to_remove, frames_read, fails, ever_connected,
                    delay_at_connect >>

\* _distribute_frame: self.last_frame = frame_bytes
DistributeSetLast ==
    /\ wpc = "dist"
    /\ last_frame' = cur
    /\ published' = Append(published, cur)
    /\ wpc' = "dist_lock"
    /\ since_stop' = publish_counted(running, since_stop)
    /\ UNCHANGED << webVars, running, cap, clients, lock, motion_detection, cliVars,
                    spc, stops, cpc, motVars, reconnect_delay, cur, iter,
                    to_remove, frames_read, fails, ever_connected,
                    delay_at_connect >>

\* with self.clients_lock: clients_to_remove = []
DistributeLock ==
    /\ wpc = "dist_lock"
    /\ lock = "none"
    /\ lock' = "worker"
    /\ iter' = clients
    /\ to_remove' = {}
    /\ wpc' = "dist_push"
    /\ UNCHANGED << webVars, running, cap, clients, last_frame, published, motion_detection,
                    cliVars, stpVars, cpc, motVars, reconnect_delay, cur,
                    frames_read, fails, ever_connected, delay_at_connect >>

\* a publish pass whose push waits for room in the FIFO
DistributePushBlocking ==
    /\ wpc = "dist_push"
    /\ \E c \in iter :
        /\ Len(buffer[c]) < BufferMaxLen
        /\ buffer' = [buffer EXCEPT ![c] = Append(@, cur)]
        /\ pushed' = [pushed EXCEPT ![c] = Append(@, cur)]
        /\ iter' = iter \ {c}
    /\ UNCHANGED << webVars, mgrVars, connected, evicted, yielded, stpVars, cpc, motVars, wpc,
                    reconnect_delay, cur, to_remove, frames_read, fails,
                    ever_connected, delay_at_connect >>

\* for client in self.clients: client.add_frame(frame_bytes)
DistributePush ==
    /\ wpc = "dist_push"
    /\ \E c \in iter :
        /\ buffer' = [buffer EXCEPT ![c] = add_frame(@, cur)]
        /\ pushed' = [pushed EXCEPT ![c] = Append(@, cur)]
        /\ evicted' = [evicted EXCEPT ![c] =
                           IF Len(buffer[c]) >= BufferMaxLen THEN @ + 1 ELSE @]
        /\ iter' = iter \ {c}
    /\ UNCHANGED << webVars, mgrVars, connected, yielded, stpVars, cpc, motVars, wpc,
                    reconnect_delay, cur, to_remove, frames_read, fails,
                    ever_connected, delay_at_connect >>

\* a publish pass that a raising push ends: the handles after it are skipped
DistributePushRaisesAborts ==
    /\ wpc = "dist_push"
    /\ \E c \in iter :
        /\ to_remove' = to_remove \cup {c}
        /\ iter' = {}
    /\ UNCHANGED << webVars, mgrVars, cliVars, stpVars, cpc, motVars, wpc,
                    reconnect_delay, cur, frames_read, fails, ever_connected,
                    delay_at_connect >>

\* client.add_frame raises: except Exception: clients_to_remove.append(client)
DistributePushRaises ==
    /\ wpc = "dist_push"
    /\ \E c \in iter :
        /\ to_remove' = to_remove \cup {c}
        /\ iter' = iter \ {c}
    /\ UNCHANGED << webVars, mgrVars, cliVars, stpVars, cpc, motVars, wpc,
                    reconnect_delay, cur, frames_read, fails, ever_connected,
                    delay_at_connect >>

\* for client in clients_to_remove: self.clients.discard(client); the lock is
\* released; time.sleep(0.01)
DistributeEnd ==
    /\ wpc = "dist_push"
    /\ iter = {}
    /\ clients' = clients \ to_remove
    /\ to_remove' = {}
    /\ lock' = "none"
    /\ wpc' = "inner"
    /\ UNCHANGED << webVars, running, cap, last_frame, published, motion_detection, cliVars,
                    stpVars, cpc, motVars, reconnect_delay, cur, iter,
                    frames_read, fails, ever_connected, delay_at_connect >>

\* if self.cap: self.cap.release(); self.cap = None; time.sleep(2)
WorkerCleanup ==
    /\ wpc = "cleanup"
    /\ cap' = "none"
    /\ wpc' = "outer"
    /\ UNCHANGED << webVars, running, clients, lock, last_frame, published, motion_detection,
                    cliVars, stpVars, cpc, motVars, reconnect_delay, cur, iter,
                    to_remove, frames_read, fails, ever_connected,
                    delay_at_connect >>

\* process_frame on the scripted camera, the episode being the short one
MotionProcessShortEpisode ==
    /\ wpc = "motion"
    /\ process_frame(now + gap \in ep_start..(ep_start + ShortEpisodeLength),
                     now + gap)
    /\ wpc' = "dist"
    /\ UNCHANGED << webVars, mgrVars, cliVars, stpVars, cpc, reconnect_delay, cur, iter,
                    to_remove, frames_read, fails, ever_connected,
                    delay_at_connect >>

\* process_frame on a camera whose frame k shows motion iff raw[k]
MotionProcessScript ==
    /\ wpc = "motion"
    /\ cur \in 1..Len(raw)
    /\ process_frame(raw[cur], now + gap)
    /\ wpc' = "dist"
    /\ UNCHANGED << webVars, mgrVars, cliVars, stpVars, cpc, reconnect_delay, cur, iter,
                    to_remove, frames_read, fails, ever_connected,
                    delay_at_connect >>

\* a detection that also notes the time of the motion it confirms
DetectAndMark(maxlen) ==
    /\ Len(detected) < Len(raw)
    /\ LET mb == deque_append(motion_buffer, raw[Len(detected) + 1], maxlen)
       IN  /\ motion_buffer' = mb
           /\ detected' = Append(detected, debounced(mb))
           /\ last_motion_time' = IF debounced(mb) THEN now
                                                   ELSE last_motion_time
    /\ UNCHANGED << webVars, mgrVars, cliVars, wrkVars, stpVars, cpc, now, is_recording,
                    clip_frames, clip_start_time, frame_buffer,
                    motion_detected, last_motion_update, encoded, gap,
                    ep_start, raw, finalized, first_motion, last_final >>

\* process_frame on a camera that plays a script and may stay silent for
\* close to an hour between two frames
MotionProcessOutage ==
    /\ wpc = "motion"
    /\ cur \in 1..Len(raw)
    /\ \E dt \in OutageGaps :
          /\ now + dt <= MaxTimeLocalTime
          /\ process_frame(raw[cur], now + dt)
    /\ wpc' = "dist"
    /\ UNCHANGED << webVars, mgrVars, cliVars, stpVars, cpc, reconnect_delay, cur, iter,
                    to_remove, frames_read, fails, ever_connected,
                    delay_at_connect >>

\* detect_significant_motion alone, on an analyzer whose motion_buffer is a
\* deque(maxlen=maxlen), for the next raw decision of the script
DetectWithWindow(maxlen) ==
    /\ Len(detected) < Len(raw)
    /\ LET mb == deque_append(motion_buffer, raw[Len(detected) + 1], maxlen)
       IN  /\ motion_buffer' = mb
           /\ detected' = Append(detected, debounced(mb))
    /\ UNCHANGED << webVars, mgrVars, cliVars, wrkVars, stpVars, cpc, now, is_recording,
                    clip_frames, clip_start_time, last_motion_time,
                    frame_buffer, motion_detected, last_motion_update,
                    encoded, gap, ep_start, raw, finalized, first_motion,
                    last_final >>

\* a list of n frame_data whose timestamps go from 0 to d ticks
clip_of(n, d) ==
    [i \in 1..n |->
        [id |-> i, ts |-> IF n = 1 THEN 0 ELSE ((i - 1) * d) \div (n - 1)]]

\* _save_video_clip(frames, timestamp) alone, on any clip of up to
\* MaxClipFrames frames that span up to MaxClipSpan ticks
SaveVideoClip ==
    /\ encoded = << >>
    /\ \E n \in 1..MaxClipFrames, d \in 0..MaxClipSpan, o \in EncodeOutcomes :
           /\ n = 1 => d = 0
           /\ encoded' = << clip_record(clip_of(n, d), 0, o) >>
    /\ UNCHANGED << webVars, mgrVars, cliVars, wrkVars, stpVars, cpc, now, is_recording,
                    clip_frames, clip_start_time, last_motion_time,
                    frame_buffer, motion_buffer, motion_detected,
                    last_motion_update, gap, ep_start, raw, detected,
                    finalized, first_motion, last_final >>

\* ----------------------------------------------------------------- stop()
\* a stop() that leaves the handles' liveness flags alone
mark_disconnected_skipped(conn, cs) == conn

\* for client in self.clients: client.connected = False
mark_disconnected(conn, cs) ==
    [c \in Clients |-> IF c \in cs THEN FALSE ELSE conn[c]]

\* self.running = False
StopCall(maxStops) ==
    /\ spc = "idle"
    /\ stops < maxStops
    /\ running' = FALSE
    /\ spc' = "lock"
    /\ UNCHANGED << webVars, cap, clients, lock, last_frame, published, motion_detection,
                    cliVars, wrkVars, cpc, motVars, since_stop, stops >>

\* with self.clients_lock:
StopLock ==
    /\ spc = "lock"
    /\ lock = "none"
    /\ lock' = "stop"
    /\ spc' = "mark"
    /\ UNCHANGED << webVars, running, cap, clients, last_frame, published, motion_detection,
                    cliVars, wrkVars, cpc, motVars, since_stop, stops >>

\* for client in self.clients: client.connected = False; self.clients.clear()
StopDisconnectAll ==
    /\ spc = "mark"
    /\ connected' = mark_disconnected(connected, clients)
    /\ clients' = {}
    /\ lock' = "none"
    /\ spc' = "cap_check"
    /\ UNCHANGED << webVars, running, cap, last_frame, published, motion_detection, buffer, pushed,
                    evicted, yielded, wrkVars, cpc, motVars, since_stop, stops >>

\* if self.cap:
StopCapCheck ==
    /\ spc = "cap_check"
    /\ IF cap = "none"
         THEN spc' = "idle" /\ stops' = stops + 1
         ELSE spc' = "release" /\ stops' = stops
    /\ UNCHANGED << webVars, mgrVars, cliVars, wrkVars, cpc, motVars, since_stop >>

\* a stop() whose release is not guarded by try/except
StopReleaseUnguarded ==
    /\ spc = "release"
    /\ IF cap = "none"
         THEN spc' = "raised_attribute_error" /\ stops' = stops /\ cap' = cap
         ELSE spc' = "idle" /\ stops' = stops + 1 /\ cap' = "released"
    /\ UNCHANGED << webVars, running, clients, lock, last_frame, published, motion_detection,
                    cliVars, wrkVars, cpc, motVars, since_stop >>

\* try: self.cap.release() except: pass -- self.cap is read again, and may by
\* now be None
StopRelease ==
    /\ spc = "release"
    /\ cap' = IF cap = "none" THEN "none" ELSE "released"
    /\ spc' = "idle"
    /\ stops' = stops + 1
    /\ UNCHANGED << webVars, running, clients, lock, last_frame, published, motion_detection,
                    cliVars, wrkVars, cpc, motVars, since_stop >>

\* ------------------------------------------------------------- consumers
\* add_client: client = StreamClient()
ClientCreate(c) ==
    /\ cpc[c] = "idle"
    /\ connected' = [connected EXCEPT ![c] = TRUE]
    /\ buffer' = [buffer EXCEPT ![c] = << >>]
    /\ yielded' = [yielded EXCEPT ![c] = [hdr |-> 0, body |-> 0]]
    /\ cpc' = [cpc EXCEPT ![c] = "add"]
    /\ UNCHANGED << webVars, mgrVars, pushed, evicted, wrkVars, stpVars, motVars >>

\* add_client: with self.clients_lock: self.clients.add(client)
ClientAdd(c) ==
    /\ cpc[c] = "add"
    /\ lock = "none"
    /\ clients' = clients \cup {c}
    /\ pushed' = [pushed EXCEPT ![c] = << >>]
    /\ cpc' = [cpc EXCEPT ![c] = "add_log"]
    /\ UNCHANGED << webVars, running, cap, lock, last_frame, published,
                    motion_detection, connected, buffer, evicted, yielded,
                    wrkVars, stpVars, motVars >>

\* add_client: logger.info(... len(self.clients)), after the with block: the
\* size of the set is read whoever holds the lock
ClientAddLog(c) ==
    /\ cpc[c] = "add_log"
    /\ cpc' = [cpc EXCEPT ![c] = "first"]
    /\ UNCHANGED << webVars, mgrVars, cliVars, wrkVars, stpVars, motVars >>

\* generate_mjpg: if stream_manager.last_frame:
ClientFirstFrame(c) ==
    /\ cpc[c] = "first"
    /\ cpc' = [cpc EXCEPT ![c] = IF last_frame # 0 THEN "first_hdr" ELSE "loop"]
    /\ UNCHANGED << webVars, mgrVars, cliVars, wrkVars, stpVars, motVars >>

\* generate_mjpg: f'Content-Length: {len(stream_manager.last_frame)}'
ClientFirstHeader(c) ==
    /\ cpc[c] = "first_hdr"
    /\ yielded' = [yielded EXCEPT ![c].hdr = last_frame]
    /\ cpc' = [cpc EXCEPT ![c] = "first_body"]
    /\ UNCHANGED << webVars, mgrVars, connected, buffer, pushed, evicted, wrkVars,
                    stpVars, motVars >>

\* generate_mjpg: yield ... + stream_manager.last_frame + b'\r\n'
ClientFirstBody(c) ==
    /\ cpc[c] = "first_body"
    /\ yielded' = [yielded EXCEPT ![c].body = last_frame]
    /\ cpc' = [cpc EXCEPT ![c] = "sent"]
    /\ UNCHANGED << webVars, mgrVars, connected, buffer, pushed, evicted, wrkVars,
                    stpVars, motVars >>

\* get_frames: while self.connected:
ClientLoopCheck(c) ==
    /\ cpc[c] = "loop"
    /\ cpc' = [cpc EXCEPT ![c] = IF connected[c] THEN "poll" ELSE "remove"]
    /\ UNCHANGED << webVars, mgrVars, cliVars, wrkVars, stpVars, motVars >>

\* get_frames: if self.buffer: yield self.buffer.popleft()
ClientPop(c) ==
    /\ cpc[c] = "poll"
    /\ buffer[c] # << >>
    /\ buffer' = [buffer EXCEPT ![c] = Tail(@)]
    /\ yielded' = [yielded EXCEPT ![c] =
                       [hdr |-> Head(buffer[c]), body |-> Head(buffer[c])]]
    /\ cpc' = [cpc EXCEPT ![c] = "sent"]
    /\ UNCHANGED << webVars, mgrVars, connected, pushed, evicted, wrkVars, stpVars,
                    motVars >>

\* get_frames: else: time.sleep(0.001)
ClientSleep(c) ==
    /\ cpc[c] = "poll"
    /\ buffer[c] = << >>
    /\ cpc' = [cpc EXCEPT ![c] = "loop"]
    /\ UNCHANGED << webVars, mgrVars, cliVars, wrkVars, stpVars, motVars >>

\* the HTTP client takes the frame: the generator resumes after its yield
ClientResume(c) ==
    /\ cpc[c] = "sent"
    /\ yielded' = [yielded EXCEPT ![c] = [hdr |-> 0, body |-> 0]]
    /\ cpc' = [cpc EXCEPT ![c] = "loop"]
    /\ UNCHANGED << webVars, mgrVars, connected, buffer, pushed, evicted, wrkVars,
                    stpVars, motVars >>

\* the HTTP client goes away: GeneratorExit at a yield (the opening boundary
\* of generate_mjpg, or a frame), then the finally block
ClientGoesAway(c) ==
    /\ cpc[c] \in {"first", "sent"}
    /\ yielded' = [yielded EXCEPT ![c] = [hdr |-> 0, body |-> 0]]
    /\ cpc' = [cpc EXCEPT ![c] = "remove"]
    /\ UNCHANGED << webVars, mgrVars, connected, buffer, pushed, evicted, wrkVars,
                    stpVars, motVars >>

\* remove_client: client.connected = False
ClientRemoveFlag(c) ==
    /\ cpc[c] = "remove"
    /\ connected' = [connected EXCEPT ![c] = FALSE]
    /\ cpc' = [cpc EXCEPT ![c] = "discard"]
    /\ UNCHANGED << webVars, mgrVars, buffer, pushed, evicted, yielded, wrkVars,
                    stpVars, motVars >>

\* a detach that does not take clients_lock
ClientDiscardUnlocked(c) ==
    /\ cpc[c] = "discard"
    /\ clients' = clients \ {c}
    /\ cpc' = [cpc EXCEPT ![c] = "remove_log"]
    /\ UNCHANGED << webVars, running, cap, lock, last_frame, published,
                    motion_detection, cliVars, wrkVars, stpVars, motVars >>

\* remove_client: with self.clients_lock: self.clients.discard(client)
ClientDiscard(c) ==
    /\ cpc[c] = "discard"
    /\ lock = "none"
    /\ clients' = clients \ {c}
    /\ cpc' = [cpc EXCEPT ![c] = "remove_log"]
    /\ UNCHANGED << webVars, running, cap, lock, last_frame, published,
                    motion_detection, cliVars, wrkVars, stpVars, motVars >>

\* remove_client: logger.info(... len(self.clients)), after the with block
ClientRemoveLog(c) ==
    /\ cpc[c] = "remove_log"
    /\ cpc' = [cpc EXCEPT ![c] = "done"]
    /\ UNCHANGED << webVars, mgrVars, cliVars, wrkVars, stpVars, motVars >>

\* get_motion_status: the analyzer's flag, False without an analyzer
get_motion_status == IF motion_detection THEN motion_detected ELSE FALSE

\* ------------------------------------------------------ the web application
\* One thread per request (app.run(threaded=True)).  A request presents the
\* cookie session_id: an id create_session has made, 0 for no cookie, or -1
\* for an id that is in no store.
Requests == 1..NRequests
SessionIds == 1..NSessionIds
Users == {"admin", "user"}
\* AUTH_CONFIG['users'][username]['role']
role_of(u) == u
NoSession == [username |-> "", role |-> "", created_at |-> -1]
NoRequest == [route |-> "", cookie |-> 0, filename |-> << >>]
\* seconds between two readings of the clock
WebGaps == {1799, 1801}

\* session_id in sessions
in_store(store, sid) == sid \in SessionIds /\ store[sid] # NoSession

\* a session that never expires
session_fresh_always(t, s) == TRUE

\* get_session: time.time() - session['created_at'] < session_timeout
session_fresh(t, s) == t - s.created_at < session_timeout

\* a logout that leaves the store as it is
delete_session_skipped(store, sid) == store

\* del sessions[session_id]
delete_session(store, sid) == [store EXCEPT ![sid] = NoSession]

\* time passes
Tick ==
    /\ \E dt \in WebGaps :
          /\ wclock + dt <= MaxWebTime
          /\ wclock' = wclock + dt
    /\ UNCHANGED << engineVars, sessions, issued, files, rpc, rreq, ruser,
                    resp, late, ran, removed >>

\* login, POST with a password that verifies: create_session(username); the
\* redirect hands the new id to the client as its cookie
LoginOk ==
    /\ \E u \in Users, sid \in SessionIds \ issued :
          /\ sessions' = [sessions EXCEPT ![sid] =
                 [username |-> u, role |-> role_of(u), created_at |-> wclock]]
          /\ issued' = issued \cup {sid}
    /\ UNCHANGED << engineVars, wclock, files, rpc, rreq, ruser, resp, late,
                    ran, removed >>

\* a request for a route wrapped by login_required arrives
ProtectedArrives(r) ==
    /\ rpc[r] = "idle"
    /\ \E c \in issued \cup {0, -1} :
          /\ rreq' = [rreq EXCEPT ![r] =
                 [route |-> "page", cookie |-> c, filename |-> << >>]]
          /\ late' = [late EXCEPT ![r] = ~in_store(sessions, c)]
    /\ rpc' = [rpc EXCEPT ![r] = "auth"]
    /\ UNCHANGED << engineVars, sessions, issued, wclock, files, ruser, resp,
                    ran, removed >>

\* decorated_function: if not AUTH_CONFIG['enabled']: ...;
\* session = get_session(session_id) if session_id else None
AuthCheck(r) ==
    /\ rpc[r] = "auth"
    /\ rpc' = [rpc EXCEPT ![r] = IF ~auth_enabled THEN "run"
                                 ELSE IF rreq[r].cookie = 0 THEN "deny"
                                 ELSE "gs_in"]
    /\ UNCHANGED << engineVars, sessions, issued, wclock, files, rreq, ruser,
                    resp, late, ran, removed >>

\* get_session: if session_id in sessions:
GetSessionIn(r) ==
    /\ rpc[r] = "gs_in"
    /\ rpc' = [rpc EXCEPT ![r] = IF in_store(sessions, rreq[r].cookie)
                                   THEN "gs_read" ELSE "deny"]
    /\ UNCHANGED << engineVars, sessions, issued, wclock, files, rreq, ruser,
                    resp, late, ran, removed >>

\* get_session: session = sessions[session_id]; KeyError when another thread
\* has deleted the entry since the test
GetSessionRead(r) ==
    /\ rpc[r] = "gs_read"
    /\ IF in_store(sessions, rreq[r].cookie)
         THEN /\ ruser' = [ruser EXCEPT ![r] = sessions[rreq[r].cookie]]
              /\ rpc' = [rpc EXCEPT ![r] = "gs_time"]
              /\ resp' = resp
         ELSE /\ resp' = [resp EXCEPT ![r] = 500]
              /\ rpc' = [rpc EXCEPT ![r] = "done"]
              /\ ruser' = ruser
    /\ UNCHANGED << engineVars, sessions, issued, wclock, files, rreq, late,
                    ran, removed >>

\* get_session: if time.time() - session['created_at'] < session_timeout:
\* return session
GetSessionTime(r) ==
    /\ rpc[r] = "gs_time"
    /\ IF session_fresh(wclock, ruser[r])
         THEN /\ rpc' = [rpc EXCEPT ![r] = "run"]
              /\ ruser' = ruser
         ELSE /\ rpc' = [rpc EXCEPT ![r] = "gs_del"]
              /\ ruser' = [ruser EXCEPT ![r] = NoSession]
    /\ UNCHANGED << engineVars, sessions, issued, wclock, files, rreq, resp,
                    late, ran, removed >>

\* get_session: del sessions[session_id]; return None.  KeyError when another
\* thread has deleted the entry
GetSessionDel(r) ==
    /\ rpc[r] = "gs_del"
    /\ IF in_store(sessions, rreq[r].cookie)
         THEN /\ sessions' = delete_session(sessions, rreq[r].cookie)
              /\ rpc' = [rpc EXCEPT ![r] = "deny"]
              /\ resp' = resp
         ELSE /\ resp' = [resp EXCEPT ![r] = 500]
              /\ rpc' = [rpc EXCEPT ![r] = "done"]
              /\ sessions' = sessions
    /\ UNCHANGED << engineVars, issued, wclock, files, rreq, ruser, late, ran,
                    removed >>

\* decorated_function: if not session: return redirect(url_for('login', ...))
Deny(r) ==
    /\ rpc[r] = "deny"
    /\ resp' = [resp EXCEPT ![r] = 302]
    /\ rpc' = [rpc EXCEPT ![r] = "done"]
    /\ UNCHANGED << engineVars, sessions, issued, wclock, files, rreq, ruser,
                    late, ran, removed >>

\* decorated_function: request.user = session; return f(*args, **kwargs),
\* for a handler that serves a page
RunHandler(r) ==
    /\ rpc[r] = "run"
    /\ rreq[r].route = "page"
    /\ ran' = [ran EXCEPT ![r] = TRUE]
    /\ resp' = [resp EXCEPT ![r] = 200]
    /\ rpc' = [rpc EXCEPT ![r] = "done"]
    /\ UNCHANGED << engineVars, sessions, issued, wclock, files, rreq, ruser,
                    late, removed >>

\* a request for /logout arrives
LogoutArrives(r) ==
    /\ rpc[r] = "idle"
    /\ \E c \in issued \cup {0, -1} :
          rreq' = [rreq EXCEPT ![r] =
              [route |-> "logout", cookie |-> c, filename |-> << >>]]
    /\ rpc' = [rpc EXCEPT ![r] = "lo_in"]
    /\ UNCHANGED << engineVars, sessions, issued, wclock, files, ruser, resp,
                    late, ran, removed >>

\* logout: if session_id in sessions:
LogoutIn(r) ==
    /\ rpc[r] = "lo_in"
    /\ rpc' = [rpc EXCEPT ![r] = IF in_store(sessions, rreq[r].cookie)
                                   THEN "lo_read" ELSE "lo_resp"]
    /\ UNCHANGED << engineVars, sessions, issued, wclock, files, rreq, ruser,
                    resp, late, ran, removed >>

\* logout: username = sessions[session_id]['username']
LogoutRead(r) ==
    /\ rpc[r] = "lo_read"
    /\ IF in_store(sessions, rreq[r].cookie)
         THEN /\ rpc' = [rpc EXCEPT ![r] = "lo_del"]
              /\ resp' = resp
         ELSE /\ resp' = [resp EXCEPT ![r] = 500]
              /\ rpc' = [rpc EXCEPT ![r] = "done"]
    /\ UNCHANGED << engineVars, sessions, issued, wclock, files, rreq, ruser,
                    late, ran, removed >>

\* logout: del sessions[session_id]
LogoutDel(r) ==
    /\ rpc[r] = "lo_del"
    /\ IF in_store(sessions, rreq[r].cookie)
         THEN /\ sessions' = delete_session(sessions, rreq[r].cookie)
              /\ rpc' = [rpc EXCEPT ![r] = "lo_resp"]
              /\ resp' = resp
         ELSE /\ resp' = [resp EXCEPT ![r] = 500]
              /\ rpc' = [rpc EXCEPT ![r] = "done"]
              /\ sessions' = sessions
    /\ UNCHANGED << engineVars, issued, wclock, files, rreq, ruser, late, ran,
                    removed >>

\* logout: response = redirect(url_for('login')); the cookie is cleared
LogoutRedirect(r) ==
    /\ rpc[r] = "lo_resp"
    /\ resp' = [resp EXCEPT ![r] = 302]
    /\ rpc' = [rpc EXCEPT ![r] = "done"]
    /\ UNCHANGED << engineVars, sessions, issued, wclock, files, rreq, ruser,
                    late, ran, removed >>

\* ------------------------------------------------------------- delete_clip
\* File names are sequences of characters.  The output directory holds
\* entries of four kinds: a regular file, a subdirectory, a symbolic link to
\* a file outside the directory and a symbolic link to a file in a
\* subdirectory of it.
Entries ==
    { [name |-> << "a" >>, kind |-> "file"],
      [name |-> << "b" >>, kind |-> "file"],
      [name |-> << ".", "a" >>, kind |-> "file"],
      [name |-> << "a", "a" >>, kind |-> "link_out"],
      [name |-> << "a", "b" >>, kind |-> "link_sub"],
      [name |-> << "b", "b" >>, kind |-> "dir"] }

\* the file names a request can carry
RequestNames ==
    { << "a" >>, << "b" >>, << "c" >>, << ".", "a" >>, << "a", "a" >>,
      << "a", "b" >>, << "b", "b" >>, << ".", "." >>, << "/", "a" >>,
      << "b", "/" >>, << "b", "b", "/", "a" >>, << ".", ".", "/", "a" >>,
      << "a", ".", ".", "b" >> }

\* '..' in s
has_dotdot(s) == \E i \in 1..(Len(s) - 1) : s[i] = "." /\ s[i + 1] = "."

\* s.startswith(ch)
startswith(s, ch) == Len(s) > 0 /\ s[1] = ch

\* os.path.basename(s): what follows the last '/'
basename(s) ==
    LET slashes == {i \in 1..Len(s) : s[i] = "/"}
        last == IF slashes = {} THEN 0
                ELSE CHOOSE i \in slashes : \A j \in slashes : j <= i
    IN  SubSeq(s, last + 1, Len(s))

\* the kind of the entry output_dir/name, "none" when there is none
kind_of(fs, n) ==
    IF \E f \in fs : f.name = n
      THEN (CHOOSE f \in fs : f.name = n).kind
      ELSE "none"

\* a path test that lets every path through
within_output_dir_any(k) == TRUE

\* os.path.commonpath([realpath(filepath), realpath(output_dir)]) ==
\* realpath(output_dir), for filepath = output_dir/name of kind k
within_output_dir(k) == k # "link_out"

\* a role test that lets every role through
is_admin_any(role) == TRUE

\* request.user['role'] != 'admin', negated
is_admin(role) == role = "admin"

\* the status delete_clip answers before it reaches os.path.exists, 0 when it
\* reaches it
delete_refused(role, fname, fs) ==
    IF ~is_admin(role) THEN 403
    ELSE IF has_dotdot(fname) \/ startswith(fname, "/") THEN 400
    ELSE IF basename(fname) = << >> \/ startswith(basename(fname), ".")
              \/ has_dotdot(basename(fname)) THEN 400
    ELSE IF ~within_output_dir(kind_of(fs, basename(fname))) THEN 400
    ELSE 0

\* a DELETE request for /api/delete-clip/<path:filename> arrives
DeleteArrives(r) ==
    /\ rpc[r] = "idle"
    /\ \E c \in issued \cup {0, -1}, n \in RequestNames :
          /\ rreq' = [rreq EXCEPT ![r] =
                 [route |-> "delete", cookie |-> c, filename |-> n]]
          /\ late' = [late EXCEPT ![r] = ~in_store(sessions, c)]
    /\ rpc' = [rpc EXCEPT ![r] = "auth"]
    /\ UNCHANGED << engineVars, sessions, issued, wclock, files, ruser, resp,
                    ran, removed >>

\* delete_clip, from the role test to os.path.exists(filepath)
DeleteCheck(r) ==
    /\ rpc[r] = "run"
    /\ rreq[r].route = "delete"
    /\ ran' = [ran EXCEPT ![r] = TRUE]
    /\ LET refused == delete_refused(ruser[r].role, rreq[r].filename, files)
           k == kind_of(files, basename(rreq[r].filename))
       IN  IF refused # 0
             THEN /\ resp' = [resp EXCEPT ![r] = refused]
                  /\ rpc' = [rpc EXCEPT ![r] = "done"]
           ELSE IF k = "none"
             THEN /\ resp' = [resp EXCEPT ![r] = 404]
                  /\ rpc' = [rpc EXCEPT ![r] = "done"]
             ELSE /\ resp' = resp
                  /\ rpc' = [rpc EXCEPT ![r] = "rm"]
    /\ UNCHANGED << engineVars, sessions, issued, wclock, files, rreq, ruser,
                    late, removed >>

\* delete_clip: os.remove(filepath); return "File deleted", 200.  os.remove
\* raises for a directory and for an entry another request has removed, and
\* the handler answers 500
DeleteRemove(r) ==
    /\ rpc[r] = "rm"
    /\ LET n == basename(rreq[r].filename)
           k == kind_of(files, n)
       IN  IF k \in {"none", "dir"}
             THEN /\ resp' = [resp EXCEPT ![r] = 500]
                  /\ files' = files
                  /\ removed' = removed
             ELSE /\ resp' = [resp EXCEPT ![r] = 200]
                  /\ files' = files \ {[name |-> n, kind |-> k]}
                  /\ removed' = removed \cup
                        {[name |-> n, kind |-> k, role |-> ruser[r].role]}
    /\ rpc' = [rpc EXCEPT ![r] = "done"]
    /\ UNCHANGED << engineVars, sessions, issued, wclock, rreq, ruser, late,
                    ran >>

\* the state of the web application with the session store as given and no
\* request under way
InitWebAfter(store) ==
    /\ sessions = store
    /\ issued = {i \in SessionIds : store[i] # NoSession}
    /\ wclock = 0
    /\ files = Entries
    /\ rpc = [r \in Requests |-> "idle"]
    /\ rreq = [r \in Requests |-> NoRequest]
    /\ ruser = [r \in Requests |-> NoSession]
    /\ resp = [r \in Requests |-> 0]
    /\ late = [r \in Requests |-> FALSE]
    /\ ran = [r \in Requests |-> FALSE]
    /\ removed = {}

\* the state of the web application when the program starts
InitWeb == InitWebAfter([i \in SessionIds |-> NoSession])

\* the session store after the administrator and then users have logged in
LoggedIn ==
    [i \in SessionIds |->
        LET u == IF i = 1 THEN "admin" ELSE "user"
        IN  [username |-> u, role |-> role_of(u), created_at |-> 0]]

\* ------------------------------------------------------------------ Init
\* MotionAnalyzer.__init__; g, e and r are the camera's script
InitAnalyzerScripted(g, e, r) ==
    /\ raw = r
    /\ detected = << >>
    /\ now = 0
    /\ is_recording = FALSE
    /\ clip_frames = << >>
    /\ clip_start_time = -1
    /\ last_motion_time = -1
    /\ frame_buffer = << >>
    /\ motion_buffer = << >>
    /\ motion_detected = FALSE
    /\ last_motion_update = 0
    /\ encoded = << >>
    /\ gap = g
    /\ ep_start = e
    /\ finalized = 0
    /\ first_motion = -1
    /\ last_final = [motion_end |-> -1, at |-> -1]

InitAnalyzer(g, e) == InitAnalyzerScripted(g, e, << >>)

\* StreamManager.__init__, before start(); no StreamClient exists yet
InitEngine(md) ==
    /\ running = TRUE
    /\ cap = "none"
    /\ clients = {}
    /\ lock = "none"
    /\ last_frame = 0
    /\ published = << >>
    /\ motion_detection = md
    /\ connected = [c \in Clients |-> FALSE]
    /\ buffer = [c \in Clients |-> << >>]
    /\ wpc = "outer"
    /\ reconnect_delay = InitialDelay
    /\ cur = 0
    /\ iter = {}
    /\ to_remove = {}
    /\ spc = "idle"
    /\ cpc = [c \in Clients |-> "idle"]
    /\ frames_read = 0
    /\ fails = 0
    /\ ever_connected = FALSE
    /\ delay_at_connect = 0
    /\ stops = 0
    /\ since_stop = [connects |-> 0, publishes |-> 0]
    /\ pushed = [c \in Clients |-> << >>]
    /\ evicted = [c \in Clients |-> 0]
    /\ yielded = [c \in Clients |-> [hdr |-> 0, body |-> 0]]

\* the program after construction: the manager and an empty session store
InitManager(md) == InitWeb /\ InitEngine(md)

WorkerLoop ==
    \/ WorkerLoopCheck
    \/ ConnectOk
    \/ InnerCheckRunning
    \/ InnerCheckCap
    \/ ReadFrameFail
    \/ WorkerCleanup

WorkerPublish ==
    \/ DistributeSetLast
    \/ DistributeLock
    \/ DistributeEnd

StopBody ==
    \/ StopLock
    \/ StopDisconnectAll
    \/ StopCapCheck
    \/ StopRelease

ConsumerStep(c) ==
    \/ ClientCreate(c)
    \/ ClientAdd(c)
    \/ ClientAddLog(c)
    \/ ClientFirstFrame(c)
    \/ ClientFirstHeader(c)
    \/ ClientFirstBody(c)
    \/ ClientLoopCheck(c)
    \/ ClientPop(c)
    \/ ClientSleep(c)
    \/ ClientResume(c)
    \/ ClientGoesAway(c)
    \/ ClientRemoveFlag(c)
    \/ ClientDiscard(c)
    \/ ClientRemoveLog(c)

\* ------------------------------------------- the lifecycle specification
\* worker, stop() and consumers of a manager without motion detection
Init == InitManager(FALSE) /\ InitAnalyzer(0, 0)

\* the state in which the sessions of both roles exist
InitDelete ==
    InitWebAfter(LoggedIn) /\ InitEngine(FALSE) /\ InitAnalyzer(0, 0)

Next ==
    \/ WorkerLoop
    \/ ConnectFail(MaxFailsLife)
    \/ BackoffSleep
    \/ ReadFrameOk(MaxFramesLife)
    \/ ReadFrameEncodeRaises
    \/ WorkerPublish
    \/ DistributePush
    \/ DistributePushRaises
    \/ StopCall(MaxStops)
    \/ StopBody
    \/ \E c \in 1..NClientsLife : ConsumerStep(c)

Spec == Init /\ [][Next]_vars

\* --------------------------------------------- the backoff specification
\* the worker against a camera whose connects may fail, and stop()
NextBackoff ==
    \/ WorkerLoop
    \/ ConnectFail(MaxFailsBackoff)
    \/ BackoffSleep
    \/ ReadFrameOk(MaxFramesBackoff)
    \/ WorkerPublish
    \/ StopCall(MaxStopsBackoff)
    \/ StopBody

SpecBackoff == Init /\ [][NextBackoff]_vars

\* ------------------------------------------------ the FIFO specification
\* The manager after WarmFrames frames were published to consumer 1, which
\* attached before the first of them and has not been scheduled since.
InitFifo ==
    /\ InitAnalyzer(0, 0)
    /\ InitWeb
    /\ running = TRUE
    /\ cap = "open"
    /\ clients = {1}
    /\ lock = "none"
    /\ last_frame = WarmFrames
    /\ published = [i \in 1..WarmFrames |-> i]
    /\ motion_detection = FALSE
    /\ connected = [c \in Clients |-> c = 1]
    /\ buffer = [c \in Clients |->
                    IF c = 1 THEN [i \in 1..WarmFrames |-> i] ELSE << >>]
    /\ wpc = "inner"
    /\ reconnect_delay = InitialDelay
    /\ cur = WarmFrames
    /\ iter = {}
    /\ to_remove = {}
    /\ spc = "idle"
    /\ cpc = [c \in Clients |-> IF c = 1 THEN "loop" ELSE "idle"]
    /\ frames_read = WarmFrames
    /\ fails = 0
    /\ ever_connected = TRUE
    /\ delay_at_connect = InitialDelay
    /\ stops = 0
    /\ since_stop = [connects |-> 0, publishes |-> 0]
    /\ pushed = [c \in Clients |->
                    IF c = 1 THEN [i \in 1..WarmFrames |-> i] ELSE << >>]
    /\ evicted = [c \in Clients |-> 0]
    /\ yielded = [c \in Clients |-> [hdr |-> 0, body |-> 0]]

WorkerFifo ==
    \/ InnerCheckRunning
    \/ InnerCheckCap
    \/ ReadFrameOk(WarmFrames + MaxFramesFifo)
    \/ WorkerPublish
    \/ DistributePush

\* consumer 1 from inside get_frames on: it polls, takes frames, or goes away
ConsumerDrains(c) ==
    \/ ClientLoopCheck(c)
    \/ ClientPop(c)
    \/ ClientSleep(c)
    \/ ClientResume(c)
    \/ ClientGoesAway(c)
    \/ ClientRemoveFlag(c)
    \/ ClientDiscard(c)
    \/ ClientRemoveLog(c)

NextFifo ==
    \/ WorkerFifo
    \/ ConsumerDrains(1)

SpecFifo == InitFifo /\ [][NextFifo]_vars

\* The same with the worker thread scheduled; the consumer need never take
\* a step.
FairSpecFifo == InitFifo /\ [][NextFifo]_vars /\ WF_vars(WorkerFifo)

\* ---------------------------------------- the cancellation specification
\* consumers, a worker on a camera that never fails, and stop(); every
\* thread is scheduled and every HTTP client keeps taking its frames
WorkerCancel ==
    \/ WorkerLoopCheck
    \/ ConnectOk
    \/ InnerCheckRunning
    \/ InnerCheckCap
    \/ WorkerCleanup
    \/ ReadFrameOk(MaxFramesCancel)
    \/ WorkerPublish
    \/ DistributePush
    \/ DistributePushRaises

ConsumerRuns(c) ==
    \/ ClientAdd(c)
    \/ ClientAddLog(c)
    \/ ClientFirstFrame(c)
    \/ ClientFirstHeader(c)
    \/ ClientFirstBody(c)
    \/ ClientLoopCheck(c)
    \/ ClientPop(c)
    \/ ClientSleep(c)
    \/ ClientResume(c)
    \/ ClientRemoveFlag(c)
    \/ ClientDiscard(c)
    \/ ClientRemoveLog(c)

NextCancel ==
    \/ WorkerCancel
    \/ StopCall(MaxStopsCancel)
    \/ StopBody
    \/ \E c \in 1..NClientsCancel : ClientCreate(c) \/ ConsumerRuns(c)

FairSpecCancel ==
    /\ Init
    /\ [][NextCancel]_vars
    /\ WF_vars(WorkerCancel)
    /\ WF_vars(StopBody)
    /\ \A c \in 1..NClientsCancel : WF_vars(ConsumerRuns(c))

\* ------------------------------------------- the recording specification
\* the worker of a manager with motion detection, a free camera, and stop()
InitMotion == InitManager(TRUE) /\ InitAnalyzer(0, 0)

NextMotion ==
    \/ WorkerLoop
    \/ ReadFrameOk(MaxFramesMotion)
    \/ MotionProcess
    \/ MotionProcessRaises
    \/ MotionErrorLogged
    \/ WorkerPublish
    \/ StopCall(MaxStopsMotion)
    \/ StopBody

SpecMotion == InitMotion /\ [][NextMotion]_vars

\* ---------------------------------------------- the status specification
\* the recording specification for a manager with or without motion
\* detection
InitStatus == \E md \in BOOLEAN : InitManager(md) /\ InitAnalyzer(0, 0)

SpecStatus == InitStatus /\ [][NextMotion]_vars

\* --------------------------------------------- the episode specification
\* The worker of a manager with motion detection on a scripted camera: a
\* frame every gap ticks, showing motion for EpisodeLength ticks from
\* ep_start, and none before or after.
InitEpisode ==
    /\ InitManager(TRUE)
    /\ \E g \in 1..MaxGapEpisode, e \in MinEpisodeStart..MaxEpisodeStart :
           InitAnalyzer(g, e)

NextEpisode ==
    \/ WorkerLoopCheck
    \/ ConnectOk
    \/ InnerCheckRunning
    \/ InnerCheckCap
    \/ ReadFrameOk(MaxFramesEpisode)
    \/ MotionProcessEpisode
    \/ WorkerPublish

SpecEpisode == InitEpisode /\ [][NextEpisode]_vars

\* --------------------------------------- the short-episode specification
\* The same camera showing motion for ShortEpisodeLength ticks only; the
\* episode may begin with the first frames after the connect.
InitShortEpisode ==
    /\ InitManager(TRUE)
    /\ \E g \in 1..MaxGapEpisode, e \in 1..MaxEpisodeStart :
           InitAnalyzer(g, e)

NextShortEpisode ==
    \/ WorkerLoopCheck
    \/ ConnectOk
    \/ InnerCheckRunning
    \/ InnerCheckCap
    \/ ReadFrameOk(MaxFramesEpisode)
    \/ MotionProcessShortEpisode
    \/ WorkerPublish

SpecShortEpisode == InitShortEpisode /\ [][NextShortEpisode]_vars

\* ---------------------------------------------- the script specification
\* The worker of a manager with motion detection on a camera that plays any
\* script of MaxFramesScript raw decisions, a frame every gap ticks.
InitScript ==
    /\ InitManager(TRUE)
    /\ \E g \in ScriptGaps, r \in [1..MaxFramesScript -> BOOLEAN] :
           InitAnalyzerScripted(g, 0, r)

NextScript ==
    \/ WorkerLoopCheck
    \/ ConnectOk
    \/ InnerCheckRunning
    \/ InnerCheckCap
    \/ ReadFrameOk(MaxFramesScript)
    \/ MotionProcessScript
    \/ WorkerPublish

SpecScript == InitScript /\ [][NextScript]_vars

\* ---------------------------------------------- the window specification
\* detect_significant_motion with a window of required_consecutive entries,
\* on any script of MaxFramesScript raw decisions
InitWindow ==
    /\ InitManager(TRUE)
    /\ \E r \in [1..MaxFramesScript -> BOOLEAN] : InitAnalyzerScripted(0, 0, r)

NextWindow == DetectWithWindow(required_consecutive)

SpecWindow == InitWindow /\ [][NextWindow]_vars

\* ------------------------------------------- the detection specification
\* detect_significant_motion alone, on any script of raw decisions.  It
\* starts where process_frame calls it for frame k + 1, a frame every tick:
\* on a new analyzer (k = 0), or on one that is recording, frames 1 to 3
\* having confirmed motion (k = 3).
InitDetectAfter(k, r) ==
    /\ raw = r
    /\ now = k + 1
    /\ frame_buffer = [i \in 1..(k + 1) |-> [id |-> i, ts |-> i]]
    /\ motion_buffer = [i \in 1..k |-> TRUE]
    /\ detected = [i \in 1..k |-> i = required_consecutive]
    /\ is_recording = (k > 0)
    /\ clip_frames = IF k = 0 THEN << >>
                     ELSE [i \in 1..(k + 1) |-> [id |-> Min(i, k),
                                                 ts |-> Min(i, k)]]
    /\ clip_start_time = IF k = 0 THEN -1 ELSE k
    /\ last_motion_time = IF k = 0 THEN -1 ELSE k
    /\ motion_detected = (k > 0)
    /\ last_motion_update = k
    /\ first_motion = IF k = 0 THEN -1 ELSE 1
    /\ encoded = << >>
    /\ gap = 1
    /\ ep_start = 0
    /\ finalized = 0
    /\ last_final = [motion_end |-> -1, at |-> -1]
    /\ InitWeb
    /\ running = TRUE
    /\ cap = "open"
    /\ clients = {}
    /\ lock = "none"
    /\ last_frame = k
    /\ published = [i \in 1..k |-> i]
    /\ motion_detection = TRUE
    /\ connected = [c \in Clients |-> FALSE]
    /\ buffer = [c \in Clients |-> << >>]
    /\ wpc = "motion"
    /\ reconnect_delay = InitialDelay
    /\ cur = k + 1
    /\ iter = {}
    /\ to_remove = {}
    /\ spc = "idle"
    /\ cpc = [c \in Clients |-> "idle"]
    /\ frames_read = k + 1
    /\ fails = 0
    /\ ever_connected = TRUE
    /\ delay_at_connect = InitialDelay
    /\ stops = 0
    /\ since_stop = [connects |-> 0, publishes |-> 0]
    /\ pushed = [c \in Clients |-> << >>]
    /\ evicted = [c \in Clients |-> 0]
    /\ yielded = [c \in Clients |-> [hdr |-> 0, body |-> 0]]

InitDetect ==
    \E r \in [1..MaxFramesScript -> BOOLEAN] :
        \/ InitDetectAfter(0, r)
        \/ /\ \A i \in 1..required_consecutive : r[i]
           /\ InitDetectAfter(required_consecutive, r)

NextDetect == DetectWithWindow(MotionBufferMaxLen)

SpecDetect == InitDetect /\ [][NextDetect]_vars

\* ------------------------------------------ the local-time specification
\* The worker of a manager with motion detection on a camera that shows
\* motion on frames 1 to 3 and 7 to 11, a frame every 0.7 s or after close
\* to an hour of silence: two clips are recorded.
InitLocalTime ==
    /\ InitManager(TRUE)
    /\ InitAnalyzerScripted(0, 0,
            [k \in 1..MaxFramesLocalTime |-> k <= 3 \/ (k >= 7 /\ k <= 11)])

NextLocalTime ==
    \/ WorkerLoopCheck
    \/ ConnectOk
    \/ InnerCheckRunning
    \/ InnerCheckCap
    \/ ReadFrameOk(MaxFramesLocalTime)
    \/ MotionProcessOutage
    \/ WorkerPublish

SpecLocalTime == InitLocalTime /\ [][NextLocalTime]_vars

\* ------------------------------------------------ the save specification
\* _save_video_clip applied to one clip
NextSave == SaveVideoClip

SpecSave == InitMotion /\ [][NextSave]_vars

\* --------------------------------------- the live-recording specification
\* The worker of a manager with motion detection and a consumer that
\* attaches at any time.  The camera gives a frame every 0.7 s, with
\* motion on frames 1 to 3 and from frame 7 on: one clip is recorded and
\* encoded, with any outcome, and a second recording starts.
InitRecord ==
    /\ InitManager(TRUE)
    /\ InitAnalyzerScripted(7, 0,
            [k \in 1..MaxFramesRecord |-> k <= 3 \/ k >= 7])

WorkerRecord ==
    \/ WorkerLoopCheck
    \/ ConnectOk
    \/ InnerCheckRunning
    \/ InnerCheckCap
    \/ ReadFrameOk(MaxFramesRecord)
    \/ MotionProcessScript
    \/ WorkerPublish
    \/ DistributePush

\* a consumer that attaches and then lets its FIFO fill
ConsumerAttaches(c) ==
    \/ ClientCreate(c)
    \/ ClientAdd(c)

NextRecord ==
    \/ WorkerRecord
    \/ ConsumerAttaches(1)

FairSpecRecord ==
    InitRecord /\ [][NextRecord]_vars /\ WF_vars(WorkerRecord)

\* -------------------------------------------- the pre-roll specification
\* The worker of a manager with motion detection and a free camera, started
\* where WarmPreRoll frames without motion have been processed at one pace.
InitPreRoll ==
    /\ \E g \in Gaps :
          /\ now = WarmPreRoll * g
          /\ frame_buffer = [i \in 1..WarmPreRoll |-> [id |-> i, ts |-> i * g]]
    /\ motion_buffer = [i \in 1..MotionBufferMaxLen |-> FALSE]
    /\ detected = [i \in 1..WarmPreRoll |-> FALSE]
    /\ raw = << >>
    /\ is_recording = FALSE
    /\ clip_frames = << >>
    /\ clip_start_time = -1
    /\ last_motion_time = -1
    /\ motion_detected = FALSE
    /\ last_motion_update = 0
    /\ encoded = << >>
    /\ gap = 0
    /\ ep_start = 0
    /\ finalized = 0
    /\ first_motion = -1
    /\ last_final = [motion_end |-> -1, at |-> -1]
    /\ InitWeb
    /\ running = TRUE
    /\ cap = "open"
    /\ clients = {}
    /\ lock = "none"
    /\ last_frame = WarmPreRoll
    /\ published = [i \in 1..WarmPreRoll |-> i]
    /\ motion_detection = TRUE
    /\ connected = [c \in Clients |-> FALSE]
    /\ buffer = [c \in Clients |-> << >>]
    /\ wpc = "inner"
    /\ reconnect_delay = InitialDelay
    /\ cur = WarmPreRoll
    /\ iter = {}
    /\ to_remove = {}
    /\ spc = "idle"
    /\ cpc = [c \in Clients |-> "idle"]
    /\ frames_read = WarmPreRoll
    /\ fails = 0
    /\ ever_connected = TRUE
    /\ delay_at_connect = InitialDelay
    /\ stops = 0
    /\ since_stop = [connects |-> 0, publishes |-> 0]
    /\ pushed = [c \in Clients |-> << >>]
    /\ evicted = [c \in Clients |-> 0]
    /\ yielded = [c \in Clients |-> [hdr |-> 0, body |-> 0]]

NextPreRoll ==
    \/ InnerCheckRunning
    \/ InnerCheckCap
    \/ ReadFrameOk(WarmPreRoll + MaxFramesPreRoll)
    \/ MotionProcess
    \/ WorkerPublish

SpecPreRoll == InitPreRoll /\ [][NextPreRoll]_vars

\* -------------------------------------------- the registry specification
\* The worker, stop() and two consumers that attach, read and detach at any
\* time, of a manager without motion detection; a push may raise.
WorkerRegistry ==
    \/ WorkerLoopCheck
    \/ ConnectOk
    \/ InnerCheckRunning
    \/ InnerCheckCap
    \/ WorkerCleanup
    \/ ReadFrameOk(MaxFramesRegistry)
    \/ WorkerPublish
    \/ DistributePush
    \/ DistributePushRaises

NextRegistry ==
    \/ WorkerRegistry
    \/ StopCall(MaxStopsRegistry)
    \/ StopBody
    \/ ConsumerStep(1)
    \/ ConsumerStep(2)

SpecRegistry == Init /\ [][NextRegistry]_vars

\* ---------------------------------------------------- the halt specification
\* the whole worker loop (connects that fail or succeed, reads that fail or
\* deliver a frame, publish passes), a consumer, and stop() at any point;
\* the worker thread and the thread that calls stop() are scheduled fairly
WorkerHalt ==
    \/ WorkerLoop
    \/ ConnectFail(MaxFailsHalt)
    \/ BackoffSleep
    \/ ReadFrameOk(MaxFramesHalt)
    \/ WorkerPublish
    \/ DistributePush

NextHalt ==
    \/ WorkerHalt
    \/ StopCall(MaxStopsHalt)
    \/ StopBody
    \/ \E c \in 1..NClientsHalt : ConsumerStep(c)

FairSpecHalt ==
    /\ Init
    /\ [][NextHalt]_vars
    /\ WF_vars(WorkerHalt)
    /\ WF_vars(StopBody)

\* ------------------------------------------------- the session specification
\* request threads that log in, log out and ask for a protected page, while
\* time passes
RequestStep(r) ==
    \/ ProtectedArrives(r)
    \/ AuthCheck(r)
    \/ GetSessionIn(r)
    \/ GetSessionRead(r)
    \/ GetSessionTime(r)
    \/ GetSessionDel(r)
    \/ Deny(r)
    \/ RunHandler(r)
    \/ LogoutArrives(r)
    \/ LogoutIn(r)
    \/ LogoutRead(r)
    \/ LogoutDel(r)
    \/ LogoutRedirect(r)

NextSession ==
    \/ Tick
    \/ LoginOk
    \/ \E r \in Requests : RequestStep(r)

SpecSession == Init /\ [][NextSession]_vars

\* -------------------------------------------------- the delete specification
\* request threads that ask for the deletion of a clip, with sessions of both
\* roles, while time passes
DeleteStep(r) ==
    \/ DeleteArrives(r)
    \/ AuthCheck(r)
    \/ GetSessionIn(r)
    \/ GetSessionRead(r)
    \/ GetSessionTime(r)
    \/ GetSessionDel(r)
    \/ Deny(r)
    \/ DeleteCheck(r)
    \/ DeleteRemove(r)

NextDelete ==
    \/ Tick
    \/ \E r \in Requests : DeleteStep(r)

SpecDelete == InitDelete /\ [][NextDelete]_vars

\* ================================================================ claims

IsSuffix(s, t) ==
    /\ Len(s) <= Len(t)
    /\ \A i \in 1..Len(s) : s[i] = t[Len(t) - Len(s) + i]

\* C1: every live subscriber's FIFO holds a suffix of the frames published to
\* it since it attached, in their order, and never more than 100 of them.
FifoIsSuffixOfPublished ==
    \A c \in clients :
        connected[c] =>
            /\ Len(buffer[c]) <= BufferMaxLen
            /\ IsSuffix(buffer[c], pushed[c])

\* a live subscriber whose full FIFO has discarded its oldest entry
FifoHasEvicted ==
    \E c \in clients :
        /\ connected[c]
        /\ evicted[c] >= 1
        /\ Len(buffer[c]) = BufferMaxLen

\* C2: the worker holds clients_lock exactly while it pushes, and a publish
\* pass that has set last_frame always gets through the lock and the pushes,
\* with no consumer ever taking a step.
PublishNeverWaitsForConsumers ==
    /\ [](lock = "worker" <=> wpc = "dist_push")
    /\ (wpc = "dist_lock") ~> (wpc = "inner")

\* a pass has completed although the FIFO of a consumer that has drained
\* nothing was full
PublishedOverFullFifo ==
    /\ wpc = "inner"
    /\ \E c \in clients :
        /\ evicted[c] >= 1
        /\ Len(pushed[c]) = Len(buffer[c]) + evicted[c]
        /\ Last(buffer[c]) = cur

\* C3 as stated: once stop() has returned the registry is empty and no
\* attached handle is marked connected.
NoLiveSubscriberAfterStop ==
    stops >= 1 =>
        /\ clients = {}
        /\ \A c \in Clients :
              cpc[c] \in {"add_log", "first", "first_hdr", "first_body",
                         "sent", "loop", "poll"} => ~connected[c]

\* C5: when stop() marks the registry, every consumer inside get_frames on a
\* handle of the registry leaves its read loop, its handle marked not live.
StopUnblocksConsumers ==
    \A c \in Clients :
        (spc = "mark" /\ c \in clients /\ cpc[c] \in {"loop", "poll"})
            ~> (/\ cpc[c] \in {"remove", "discard", "remove_log", "done"}
                /\ ~connected[c])

\* a consumer polls an empty FIFO while stop() is about to mark the registry
ConsumerWaitingAtStop ==
    \E c \in clients :
        /\ spc = "mark"
        /\ cpc[c] = "poll"
        /\ buffer[c] = << >>

\* C6: stop() never raises and never makes the worker raise on self.cap; once
\* a stop() has returned the manager is not running, and a later stop() that
\* finds the registry empty changes neither running, the registry, a liveness
\* flag nor a connection that is already released.
StopIsIdempotentAndSafe ==
    /\ [](spc # "raised_attribute_error" /\ wpc # "raised_attribute_error")
    /\ [](stops >= 1 => ~running)
    /\ [][ (stops >= 1 /\ clients = {} /\ (StopCall(MaxStops) \/ StopBody))
             => /\ running' = running
                /\ clients' = clients
                /\ connected' = connected
                /\ (cap # "open" => cap' = cap) ]_vars

\* a second stop() has returned while the worker was inside a publish pass
SecondStopDuringIteration ==
    /\ stops = 2
    /\ wpc = "dist_push"

\* 2 * 1.5^k seconds, capped at 30 (in 1/64 s)
RECURSIVE Pow(_, _)
Pow(b, k) == IF k = 0 THEN 1 ELSE b * Pow(b, k - 1)

BackoffValue(k) == Min((InitialDelay * Pow(3, k)) \div Pow(2, k), MaxDelay)

\* C7: while no connect has succeeded, the worker sleeps 2 * 1.5^k s (capped at
\* 30 s) after its (k+1)-th failure, does nothing but retry, and leaves its
\* loop only once the manager is no longer running.
BackoffSequenceWhenConnectsFail ==
    ~ever_connected =>
        /\ wpc \in {"outer", "connect", "backoff", "exited"}
        /\ wpc = "backoff" => reconnect_delay = BackoffValue(fails - 1)
        /\ wpc = "exited" => ~running

\* the worker sleeps the capped 30 s after its 9th failure in a row
BackoffReachedCap ==
    /\ ~ever_connected
    /\ wpc = "backoff"
    /\ fails >= 9
    /\ reconnect_delay = MaxDelay
    /\ BackoffValue(2) = 288
    /\ BackoffValue(3) = 432

\* C8: the first failed connect after a successful one sleeps the initial 2 s.
BackoffResetByConnect ==
    (ever_connected /\ wpc = "backoff" /\ fails = 1) =>
        reconnect_delay = InitialDelay

\* a connect fails right after a connection that had been reached with a
\* delay grown to the cap
FailureAfterLateConnect ==
    /\ ever_connected
    /\ wpc = "backoff"
    /\ fails = 1
    /\ delay_at_connect = MaxDelay

\* C9 as stated: the worker leaves its loop only after stop().
WorkerEndsOnlyOnStop ==
    wpc \in {"exited", "raised_cv2_error", "raised_attribute_error"} => ~running

\* C4 as stated: once stop() has returned and the worker has left its loop, no
\* clip is left in progress.
StopFinalizesRecording ==
    (stops >= 1 /\ wpc = "exited") => ~is_recording

\* C10 as stated: a clip of the episode starts at least 1.0 s before the first
\* frame that shows motion.
ClipStartsFullPreRollBeforeMotion ==
    \A i \in 1..Len(encoded) : encoded[i].first <= first_motion - clip_before

\* C10, amended: the 2.2 s episode yields exactly one finalized clip, which is
\* handed to the encoder once the frames are more than 2.0 s past the episode;
\* it starts with the oldest buffered frame no more than 1.0 s before the frame
\* that confirmed motion, which is less than 1.0 s before the first frame that
\* showed motion, and ends with the first frame more than 2.0 s after the last
\* frame that showed motion.
EpisodeYieldsOneClip ==
    /\ finalized <= 1
    /\ Len(encoded) = finalized
    /\ now > ep_start + EpisodeLength + clip_after =>
           finalized = 1 /\ ~is_recording
    /\ \A i \in 1..Len(encoded) :
        LET c == encoded[i] IN
        /\ c.first >= c.start - clip_before
        /\ c.first < c.start - clip_before + gap
        /\ c.first > first_motion - clip_before
        /\ c.start > first_motion
        /\ last_final.motion_end + gap > ep_start + EpisodeLength
        /\ last_final.motion_end <= ep_start + EpisodeLength
        /\ c.last > last_final.motion_end + clip_after
        /\ c.last <= last_final.motion_end + clip_after + gap

\* the clip of an episode filmed at one frame every 0.3 s has been encoded
EpisodeClipEncoded ==
    /\ gap = 3
    /\ Len(encoded) = 1
    /\ ~is_recording

\* C11 as stated: the encoder is never invoked for a 0.3 s motion episode.
ShortEpisodeNotPersisted ==
    encoded = << >>

\* process_frame has run to its end in this step
FrameProcessed == wpc = "motion" /\ wpc' = "dist"

\* C12: a frame without motion that comes more than 2.0 s after the last
\* motion, while recording, hands the clip to the encoder once if the clip is
\* at least 2.0 s old and to nobody otherwise, and either way leaves the
\* analyzer not recording with an empty clip; outside a recording the clip is
\* always empty.
LingeringTimeoutFinalizesOnce ==
    /\ [](~is_recording => clip_frames = << >>)
    /\ [][ (FrameProcessed /\ is_recording /\ ~Last(detected')
              /\ now' - last_motion_time > clip_after)
           => /\ ~is_recording'
              /\ clip_frames' = << >>
              /\ finalized' = finalized + 1
              /\ IF now' - clip_start_time >= min_clip_length
                   THEN /\ Len(encoded') = Len(encoded) + 1
                        /\ SubSeq(encoded', 1, Len(encoded)) = encoded
                        /\ Last(encoded').start = clip_start_time
                        /\ Last(encoded').count = Len(clip_frames) + 1
                   ELSE encoded' = encoded ]_vars

\* the lingering timeout has just ended a recording and the clip went to the
\* encoder
ClipHandedOverAtTimeout ==
    /\ wpc = "dist"
    /\ ~is_recording
    /\ finalized = 1
    /\ Len(encoded) = 1
    /\ last_final.at = now
    /\ now - last_final.motion_end > clip_after

\* C13: when a recording starts, the clip is the frame_buffer entries no
\* older than 1.0 s, in their order, followed by the current frame, and the
\* clip start is the current time.
ClipSeededFromPreRoll ==
    [][ (FrameProcessed /\ ~is_recording /\ is_recording')
        => LET fd   == [id |-> cur, ts |-> now']
               seed == SubSeq(clip_frames', 1, Len(clip_frames') - 1)
               k    == Len(frame_buffer') - Len(seed)
           IN  /\ Len(clip_frames') >= 1
               /\ Last(clip_frames') = fd
               /\ clip_start_time' = now'
               /\ k >= 0
               /\ \A i \in 1..Len(seed) :
                      /\ seed[i] = frame_buffer'[k + i]
                      /\ seed[i].ts >= now' - clip_before
               /\ \A i \in 1..k : frame_buffer'[i].ts < now' - clip_before
      ]_vars

\* a recording has just started with some buffered frames in the clip and an
\* older one left out
RecordingStartedWithPreRoll ==
    /\ wpc = "dist"
    /\ is_recording
    /\ clip_start_time = now
    /\ Len(clip_frames) >= 3
    /\ Len(clip_frames) <= Len(frame_buffer)
    /\ frame_buffer[1].ts < now - clip_before

NoClipAcrossReconnect ==
    (ever_connected /\ wpc \in {"outer", "connect", "backoff"}) =>
        ~is_recording

\* C16: detect_significant_motion appends the raw decision to the window,
\* which discards its oldest entry when it already holds 5, and returns true
\* exactly when the window then holds at least required_consecutive entries
\* and all of them are true.
DetectIffWindowAllTrue ==
    /\ [](Len(motion_buffer) <= MotionBufferMaxLen)
    /\ [][ FrameProcessed
           => /\ Len(detected') = Len(detected) + 1
              /\ Last(detected') <=>
                    /\ Len(motion_buffer') >= required_consecutive
                    /\ \A i \in 1..Len(motion_buffer') : motion_buffer'[i]
              /\ Len(motion_buffer') =
                    Min(Len(motion_buffer) + 1, MotionBufferMaxLen)
              /\ Last(motion_buffer') = raw[cur]
              /\ \A i \in 1..(Len(motion_buffer') - 1) :
                    motion_buffer'[i] =
                       motion_buffer[Len(motion_buffer) + 1
                                       - Len(motion_buffer') + i] ]_vars

\* the last three decisions in a full window are true, an older one is not,
\* and the frame was not reported as motion
FullWindowWithOldFalse ==
    /\ wpc = "dist"
    /\ Len(motion_buffer) = MotionBufferMaxLen
    /\ Len(detected) > MotionBufferMaxLen
    /\ ~motion_buffer[2]
    /\ \A i \in 3..MotionBufferMaxLen : motion_buffer[i]
    /\ ~Last(detected)

\* C18 as stated: an encode whose subprocess exits with a non-zero code, or
\* whose output file is missing or empty, returns no output path.
FailedEncodeReturnsNoPath ==
    \A i \in 1..Len(encoded) :
        (encoded[i].returncode # 0 \/ encoded[i].output # "written") =>
            encoded[i].ret = "None"

\* the raw per-frame sequence of the example
ExampleRawSequence ==
    << TRUE, TRUE, FALSE, TRUE, TRUE, TRUE, FALSE, FALSE, FALSE >>

PlaysExample ==
    \A i \in 1..Len(ExampleRawSequence) : raw[i] = ExampleRawSequence[i]

\* C17 as stated: on the example, with a window of 3, the debounced output
\* is false before the 5th position, true at the 5th and false at the 9th.
ExampleTrueAtFifth ==
    PlaysExample =>
        \A k \in 1..Min(Len(detected), Len(ExampleRawSequence)) :
            /\ k < 5 => ~detected[k]
            /\ k = 5 => detected[k]
            /\ k = 9 => ~detected[k]

\* C17, amended: on the example, with a window of 3, the debounced output is
\* true at the 6th position and at no other.
ExampleTrueAtSixthOnly ==
    PlaysExample =>
        \A k \in 1..Min(Len(detected), Len(ExampleRawSequence)) :
            detected[k] <=> k = 6

\* the example has been played to its end
ExamplePlayed ==
    /\ PlaysExample
    /\ Len(detected) >= Len(ExampleRawSequence)
    /\ Len(motion_buffer) = required_consecutive
    /\ detected[6]

\* C20: the frame rate given to the encoder is within [5, 30], it is the
\* same before the input and before the output, and for 61 frames that span
\* 2.0 s it is 30.
FpsClampedAndConsistent ==
    \A i \in 1..Len(encoded) :
        LET c == encoded[i] IN
        /\ c.in_rate = c.out_rate
        /\ c.in_rate.num >= MinFps * c.in_rate.den
        /\ c.in_rate.num <= MaxFps * c.in_rate.den
        /\ (c.count = 61 /\ c.last - c.first = 20) =>
               c.in_rate = [num |-> 30, den |-> 1]

\* a clip of 61 frames spanning 2.0 s has been encoded
ClipOf61FramesEncoded ==
    \E i \in 1..Len(encoded) :
        /\ encoded[i].count = 61
        /\ encoded[i].written = 61
        /\ encoded[i].last - encoded[i].first = 20
        /\ encoded[i].ret = "output_path"

\* C19: whatever came of the encode, the analyzer is left not recording with
\* an empty clip, the frame that ended the clip is published to every
\* subscriber in the registry, and the frames after it are still detected,
\* recorded (a new recording starts) and distributed.
FailedRecordingNeverStopsDistribution ==
    /\ [][ (FrameProcessed /\ Len(encoded') > Len(encoded))
             => (~is_recording' /\ clip_frames' = << >>) ]_vars
    /\ \A c \in Clients, f \in 1..MaxFramesRecord :
          (/\ wpc = "dist" /\ cur = f /\ c \in clients
           /\ encoded # << >> /\ last_final.at = now)
            ~> (/\ wpc = "inner" /\ last_frame = f
                /\ pushed[c] # << >> /\ Last(pushed[c]) = f)
    /\ (encoded # << >>)
          ~> (/\ wpc = "read"
              /\ Len(detected) = MaxFramesRecord
              /\ last_frame = MaxFramesRecord
              /\ is_recording
              /\ clip_start_time > encoded[1].last)

\* after an encode that failed, a subscriber holds the latest frame and a new
\* recording has started
RecordingAgainAfterFailedEncode ==
    /\ Len(encoded) = 1
    /\ encoded[1].returncode = 1
    /\ encoded[1].ret = "None"
    /\ is_recording
    /\ clip_start_time > encoded[1].last
    /\ wpc = "inner"
    /\ \E c \in clients :
          /\ Len(pushed[c]) > 6
          /\ Last(pushed[c]) = frames_read

\* C21: a publish pass always ends by returning to the worker's loop; the
\* handles whose push raised are then out of the registry, and every other
\* handle of the registry has been pushed the frame of the pass.
RaisingPushEvictsOnlyItsHandle ==
    [][ (wpc = "dist_push" /\ wpc' # "dist_push")
          => /\ wpc' = "inner"
             /\ lock' = "none"
             /\ clients' = clients \ to_remove
             /\ \A c \in clients \ to_remove :
                   pushed[c] # << >> /\ Last(pushed[c]) = cur ]_vars

\* a pass about to end in which one push raised and another handle of the
\* registry got the frame
PassWithRaisedPushAndDelivery ==
    /\ wpc = "dist_push"
    /\ iter = {}
    /\ to_remove # {}
    /\ \E c \in clients \ to_remove : Last(pushed[c]) = cur

\* a step of the publish pass, of stop() or of a consumer's attach or detach
\* that changes the registry from inside its own critical section
MutatesUnderLock ==
    \/ lock = "worker" /\ wpc = "dist_push" /\ wpc' = "inner"
    \/ lock = "stop" /\ spc = "mark" /\ spc' = "cap_check"
    \/ /\ lock = "none"
       /\ lock' = "none"
       /\ \E c \in Clients :
             \/ cpc[c] = "add" /\ cpc'[c] = "add_log"
             \/ cpc[c] = "discard" /\ cpc'[c] = "remove_log"

\* a handle leaves the registry by its consumer's detach, by the eviction
\* that ends a pass in which its push raised, or by stop()
LeavesByDetachEvictionOrStop(c) ==
    \/ cpc[c] = "discard" /\ cpc'[c] = "remove_log"
    \/ wpc = "dist_push" /\ wpc' = "inner" /\ c \in to_remove
    \/ spc = "mark" /\ spc' = "cap_check"

\* the handles a pass about to end has pushed its frame to
Delivered == {c \in Clients : pushed[c] # << >> /\ Last(pushed[c]) = cur}

RetainedFrameIsLatestAndSentFirst ==
    /\ [](last_frame = IF published = << >> THEN 0 ELSE Last(published))
    /\ [][ \A c \in Clients :
             /\ (cpc[c] = "first" /\ published # << >>
                      /\ cpc'[c] \notin {"first", "remove"})
                  => cpc'[c] = "first_hdr"
             /\ (cpc[c] = "first_body" /\ cpc'[c] # "first_body")
                  => /\ cpc'[c] = "sent"
                     /\ yielded'[c].body = Last(published)
                     /\ buffer'[c] = buffer[c] ]_vars

\* a consumer that attached after a publish is sending the retained frame,
\* no frame having been pushed to its handle
RetainedFrameSentToLateConsumer ==
    \E c \in clients :
        /\ cpc[c] = "sent"
        /\ pushed[c] = << >>
        /\ last_frame # 0
        /\ yielded[c].body = last_frame

\* C24, amended: get_motion_status is true exactly while the analyzer's
\* recording flag is set, and always false without motion detection.
StatusIsRecordingFlag ==
    get_motion_status <=> (motion_detection /\ is_recording)

\* C24 as stated: the status is true while recording and for the 2 s after
\* the recording ended, and false otherwise.
StatusHasGraceAfterRecording ==
    get_motion_status <=>
        /\ motion_detection
        /\ \/ is_recording
           \/ finalized >= 1 /\ now - last_final.at <= motion_status_grace

\* the frame that ended a recording has been processed: the status is false
StatusFalseAtEndOfRecording ==
    /\ motion_detection
    /\ finalized >= 1
    /\ now = last_final.at
    /\ ~is_recording
    /\ ~get_motion_status

SaveDividesByPositiveDuration ==
    \A i \in 1..Len(encoded) :
        LET c == encoded[i]
            span == c.last - c.first
        IN  /\ c.duration > 0
            /\ c.in_rate.den > 0
            /\ IF span < min_clip_length
                 THEN /\ c.duration = min_clip_length
                      /\ c.written = c.count
                           + ((min_clip_length - span) * NominalFps) \div 10
                 ELSE /\ c.duration = span
                      /\ c.written = c.count
            /\ c.in_rate =
                 IF c.written * 10 > MaxFps * c.duration
                   THEN [num |-> MaxFps, den |-> 1]
                 ELSE IF c.written * 10 < MinFps * c.duration
                   THEN [num |-> MinFps, den |-> 1]
                 ELSE [num |-> c.written * 10, den |-> c.duration]

\* a clip of one frame, its span 0, has been padded and given to the encoder
SingleFrameClipPadded ==
    \E i \in 1..Len(encoded) :
        /\ encoded[i].count = 1
        /\ encoded[i].last = encoded[i].first
        /\ encoded[i].written = 61
        /\ encoded[i].duration = min_clip_length
        /\ ~encoded[i].exc

\* C27 as stated: after a raw decision that is false, the output is false
\* on the consecutive true decisions before the required_consecutive-th and
\* true on that one.
ConfirmedOnRequiredConsecutiveTrue ==
    \A k \in (required_consecutive + 1)..Len(detected) :
        (/\ ~raw[k - required_consecutive]
         /\ \A j \in (k - required_consecutive + 1)..k : raw[j])
            => /\ detected[k]
               /\ \A j \in (k - required_consecutive + 1)..(k - 1) :
                     ~detected[j]

\* C28: the frames published are the frames read, each once and in the order
\* read; a frame read is unpublished only while the worker is between its
\* read and its publish; with motion detection the frame has been given to
\* process_frame before it is published, whether or not that call raised.
EachFramePublishedOnceInOrder ==
    /\ [](/\ published = [i \in 1..Len(published) |-> i]
          /\ Len(published) = IF wpc \in {"motion", "motion_error", "dist"}
                                THEN frames_read - 1 ELSE frames_read)
    /\ [][ published' # published
             => /\ published' = Append(published, frames_read)
                /\ motion_detection
                     => /\ frame_buffer # << >>
                        /\ Last(frame_buffer).id = frames_read ]_vars

\* the worker is back at the head of its loop, every frame read is published,
\* and the motion processing of one of them raised
FramePublishedAfterMotionError ==
    /\ motion_detection
    /\ wpc = "inner"
    /\ frames_read >= 2
    /\ Len(published) = frames_read
    /\ Len(detected) < frames_read
    /\ Len(frame_buffer) = frames_read

\* C29: a call of detect_significant_motion appends the raw decision of its
\* frame to the motion window and returns the debounced value of that
\* window; the recording flag, the clip frames, the clip start, the time of
\* the last motion and the pre-roll buffer are as they were.
DetectChangesOnlyItsWindow ==
    [][ detected' # detected
          => /\ motion_buffer' = deque_append(motion_buffer,
                                              raw[Len(detected')],
                                              MotionBufferMaxLen)
             /\ detected' = Append(detected, debounced(motion_buffer'))
             /\ is_recording' = is_recording
             /\ clip_frames' = clip_frames
             /\ clip_start_time' = clip_start_time
             /\ last_motion_time' = last_motion_time
             /\ frame_buffer' = frame_buffer ]_vars

\* detection has run and confirmed motion on an analyzer that is recording,
\* its clip and its pre-roll buffer as they were
DetectedWhileRecording ==
    /\ is_recording
    /\ Len(detected) > required_consecutive
    /\ Last(detected)
    /\ Len(clip_frames) = required_consecutive + 1
    /\ Len(frame_buffer) = required_consecutive + 1

\* C30 as stated: the clips of one stream start more than the post-roll
\* apart, and no two of them that were written have the same file name.
PersistedClipsHaveDistinctNames ==
    \A i, j \in 1..Len(encoded) :
        i < j =>
            /\ encoded[j].start - encoded[i].start > clip_after
            /\ (encoded[i].output = "written" /\ encoded[j].output = "written")
                   => encoded[i].filename # encoded[j].filename

\* ------------------------------------------------------------------- C31
\* the request thread r enters the handler in this step
EntersHandler(r) == rpc[r] # "run" /\ rpc'[r] = "run"

\* the request thread r answers in this step
Answers(r) == rpc[r] # "done" /\ rpc'[r] = "done"

\* C31: with authentication enabled a handler wrapped by login_required is
\* entered only with a session that was read from the store and is younger
\* than session_timeout; every other request for the route is answered by the
\* redirect to the login page; and when a request finds its session expired,
\* the session is out of the store when the request is answered.
HandlerRunsOnlyWithFreshSessionElseRedirect ==
    [][\A r \in Requests :
          /\ EntersHandler(r) =>
                /\ ruser[r] # NoSession
                /\ session_fresh(wclock, ruser[r])
          /\ (Answers(r) /\ rreq[r].route = "page" /\ ~ran'[r]) =>
                /\ resp'[r] = 302
          /\ (Answers(r) /\ rreq[r].route = "page" /\ rpc[r] \in {"gs_del", "deny"}) =>
                ~in_store(sessions', rreq[r].cookie)]_vars

\* C31, the part that holds: the handler is entered only with a fresh session
\* read from the store, and a session found expired is out of the store
\* when the request is answered
HandlerRunsOnlyWithFreshSession ==
    [][\A r \in Requests :
          /\ EntersHandler(r) =>
                /\ ruser[r] # NoSession
                /\ session_fresh(wclock, ruser[r])
          /\ (Answers(r) /\ rreq[r].route = "page" /\ rpc[r] \in {"gs_del", "deny"}) =>
                ~in_store(sessions', rreq[r].cookie)]_vars

\* ------------------------------------------------------------------- C32
\* the request thread r is a logout that takes a step
LogoutSteps(r) == rreq[r].route = "logout" /\ rpc'[r] # rpc[r]

\* C32: once a logout for a session id has been answered, that id is not in
\* the session store, in this state and in every later one, and a request for
\* a login_required route that arrives with an id that is not in the store is
\* answered by the redirect to the login page without running the handler;
\* a step of a logout changes no session but the one its cookie names, and
\* none at all when the cookie is missing or unknown.
LogoutRemovesSessionForGood ==
    [][\A r \in Requests :
          /\ (rreq'[r].route = "logout" /\ rpc'[r] = "done") =>
                ~in_store(sessions', rreq'[r].cookie)
          /\ (Answers(r) /\ rreq[r].route = "page" /\ late[r]) =>
                (resp'[r] = 302 /\ ~ran'[r])
          /\ LogoutSteps(r) =>
                \A i \in SessionIds :
                   (i # rreq[r].cookie \/ ~in_store(sessions, i))
                      => sessions'[i] = sessions[i]]_vars

\* a request that presented a logged-out session id has been redirected while
\* another user's session is still in the store
RedirectedAfterLogout ==
    \E r, q \in Requests, i \in SessionIds :
       /\ rreq[q].route = "logout" /\ rpc[q] = "done" /\ resp[q] = 302
       /\ rreq[q].cookie \in SessionIds /\ rreq[q].cookie # i
       /\ in_store(sessions, i)
       /\ rreq[r].route = "page" /\ rreq[r].cookie = rreq[q].cookie
       /\ late[r] /\ rpc[r] = "done" /\ resp[r] = 302

\* ------------------------------------------------------------------- C33
\* C33: delete_clip is admin only: a request that reaches the handler with a
\* session whose role is not admin is answered 403 and leaves the output
\* directory as it is; the directory changes only by the removal of one
\* entry, by a request whose session role is admin, and the entry is the one
\* named by the base name of the request's file name, directly inside the
\* output directory (no '/' in it, not hidden), with a real path inside the
\* directory.
DeleteIsAdminOnlyAndInsideOutputDir ==
    [][/\ \A r \in Requests :
             (rpc[r] = "run" /\ rreq[r].route = "delete" /\ rpc'[r] # "run"
                 /\ ruser[r].role # "admin")
               => (resp'[r] = 403 /\ rpc'[r] = "done" /\ files' = files)
       /\ files' # files =>
             \E r \in Requests :
                LET n == basename(rreq[r].filename)
                    k == kind_of(files, n)
                IN  /\ rpc[r] = "rm" /\ resp'[r] = 200
                    /\ ruser[r].role = "admin"
                    /\ files' = files \ {[name |-> n, kind |-> k]}
                    /\ n # << >> /\ \A i \in 1..Len(n) : n[i] # "/"
                    /\ ~startswith(n, ".")
                    /\ k \in {"file", "link_sub"}]_vars

\* an admin has removed a clip, and a user's request for another clip that
\* exists has been answered 403
AdminRemovedAndUserRefused ==
    /\ \E x \in removed : x.role = "admin" /\ x.kind = "file"
    /\ \E r \in Requests :
          /\ rreq[r].route = "delete" /\ rpc[r] = "done" /\ resp[r] = 403
          /\ ruser[r].role = "user"
          /\ kind_of(files, basename(rreq[r].filename)) = "file"

\* ------------------------------------------------------------------- C34
\* C34: when process_frame finalizes a clip by the lingering timeout, the
\* clip started no later than the last motion and the last motion is more than
\* the post-roll ago, so the clip is longer than the post-roll; as
\* min_clip_length <= clip_after, the clip is long enough, the discard branch
\* is not taken and the clip is handed to the encoder.
TimeoutFinalizationNeverDiscards ==
    [][finalized' # finalized =>
          /\ clip_start_time <= last_motion_time
          /\ now' - last_motion_time > clip_after
          /\ now' - clip_start_time > clip_after
          /\ min_clip_length <= clip_after
          /\ clip_long_enough(now', clip_start_time)
          /\ Len(encoded') = Len(encoded) + 1
          /\ Last(encoded').start = clip_start_time
          /\ Last(encoded').last = now']_vars

\* a clip whose only frame with motion was its first has been finalized by
\* the timeout and handed to the encoder
ShortestClipHandedToEncoder ==
    /\ finalized > 0
    /\ Len(encoded) = finalized
    /\ Last(encoded).start = last_final.motion_end
    /\ Last(encoded).last = last_final.at
    /\ ~is_recording

\* ------------------------------------------------------------------- C35
\* C35: the clip under construction holds every captured frame at most once
\* and its timestamps increase strictly; the frame that starts the recording
\* is in the clip exactly once.
ClipHoldsEachFrameOnce ==
    /\ \A i, j \in 1..Len(clip_frames) :
          i < j => /\ clip_frames[i].id # clip_frames[j].id
                   /\ clip_frames[i].ts < clip_frames[j].ts
    /\ is_recording =>
          Cardinality({i \in 1..Len(clip_frames) :
                          clip_frames[i].ts = clip_start_time}) = 1

\* ------------------------------------------------------------------- C36
\* C36: motion_detected equals is_recording after every step, so the status
\* get_motion_status reports is true exactly when the analyzer is recording
\* (and there is an analyzer); the status changes only in a step that
\* processes a frame, and keeps its value in every other step.
StatusFollowsRecordingOnFramesOnly ==
    [][/\ motion_detected' = is_recording'
       /\ get_motion_status' <=> (motion_detection' /\ is_recording')
       /\ (get_motion_status' # get_motion_status) => FrameProcessed
       /\ (motion_detected' # motion_detected) => FrameProcessed]_vars

\* the worker has ended in the middle of a recording: no frame arrives any
\* more and the status is still true
StatusKeptAfterWorkerEnded ==
    /\ wpc = "exited"
    /\ motion_detection
    /\ is_recording
    /\ get_motion_status

\* ------------------------------------------------------------------- C37
\* C37: a consumer is handed each published frame at most once and in publish
\* order: the frame it has just been handed was published before every frame
\* that waits in its FIFO, which are the frames it is handed next.
HandedFrameOlderThanQueued ==
    \A c \in Clients :
       (cpc[c] = "sent" /\ yielded[c].body # 0) =>
           \A i \in 1..Len(buffer[c]) : yielded[c].body < buffer[c][i]

\* ------------------------------------------------------------------- C38
\* C38: once add_client has returned to a consumer and until the consumer
\* has detached, a handle whose connected flag is true is a member of the
\* registry.
LiveHandleIsRegistered ==
    \A c \in Clients :
       (connected[c] /\ cpc[c] \notin {"idle", "add", "add_log"})
           => c \in clients

\* ------------------------------------------------------------------- C39
\* C39: once stop() has cleared running, the worker makes at most one more
\* connect attempt or publish pass, the one it was about to make or was in
\* (never both, never two), and under fair scheduling it leaves its loop.
WorkerHaltsAfterStop ==
    /\ [](since_stop.connects + since_stop.publishes <= 1)
    /\ [][/\ (~running /\ wpc = "outer" /\ wpc' # wpc) => wpc' = "exited"
          /\ wpc = "exited" => wpc' = "exited"]_vars
    /\ (~running ~> wpc = "exited")

\* stop() was called between the worker's loop test and its read: the frame
\* of that read has been published and the worker has not yet left its loop
FramePublishedAfterStop ==
    /\ ~running
    /\ since_stop.publishes = 1
    /\ wpc \notin {"outer", "exited"}

\* ------------------------------------------------------------------- C40
\* C40: in every state between two process_frame calls, an analyzer that is
\* not recording has an empty clip, and one that is recording has a clip
\* that is not empty and
\* clip start <= last motion <= time of the latest processed frame; the
\* step that hands a clip to the encoder leaves the analyzer not recording
\* with an empty clip whatever the encoder's outcome.
IdleClipEmptyRecordingClipOrdered ==
    /\ [](~is_recording => clip_frames = << >>)
    /\ [](is_recording =>
             /\ clip_frames # << >>
             /\ clip_start_time <= last_motion_time
             /\ last_motion_time <= now)
    /\ [][Len(encoded') > Len(encoded) =>
             (~is_recording' /\ clip_frames' = << >>)]_vars

\* a clip has been handed to an encoder that failed, and a later recording
\* is under way
RecordingAfterEncoderFailure ==
    /\ encoded # << >>
    /\ Last(encoded).ret = "None"
    /\ is_recording
    /\ clip_frames # << >>
    /\ clip_start_time > Last(encoded).last

============================================================================
